---- MODULE Spec2Model ----
(***************************************************************************)
(* python-vxi11: the instrument link protocol of vxi11/vxi11.py (Device,   *)
(* Instrument, InterfaceDevice) over the RPC transport of vxi11/rpc.py.    *)
(*                                                                         *)
(* One step of the model is the code of a public operation from one        *)
(* blocking RPC exchange to the next: the request is sent on the core      *)
(* connection and the device's answer (a reply, or a transport failure     *)
(* such as a socket timeout) is drawn from small sets.                     *)
(*                                                                         *)
(* Spec is the Device with its read, write and simple operations; ScanSpec *)
(* is an InterfaceDevice looking for listeners on a GPIB bus; RpcSpec is a *)
(* client of rpc.py on its own, one step per turn of its receive loop.     *)
(***************************************************************************)
EXTENDS Integers, Sequences, FiniteSets, TLC

VARIABLES
    kind,           \* class of the object: "Instrument" or "InterfaceDevice"
    name,           \* self.name, a sequence of characters
    py,             \* major version of the interpreter (setup.py: 2 and 3)
    term_char,      \* self.term_char: None or <<byte>>
    link,           \* self.link: None or <<handle>>
    client,         \* self.client: None or <<"CoreClient">>
    abort_port,     \* self.abort_port
    max_recv_size,  \* self.max_recv_size
    locked,         \* self.locked
    bus_address,    \* self._bus_address (InterfaceDevice)
    conns,          \* number of connected core sockets
    created,        \* handle returned by the most recent successful create_link
    pc,             \* position of the running operation; "done" once it has
                    \* returned or raised, "idle" once the caller has resumed
    op,             \* public operation that is running
    req,            \* request sent on the core connection by the last step
    resp,           \* what came back for that request
    honest,         \* device: it has kept to every request of this operation
    log,            \* procedures called on the core connection by this operation
    arg,            \* argument of the running operation
    delivered,      \* device: bytes handed out in answer to this read
    done,           \* outcome of the last operation that returned or raised
    data,           \* write_raw: data
    offset,         \* write_raw: offset
    num,            \* write_raw / read_raw: num
    flags,          \* write_raw / read_raw: flags
    read_len,       \* read_raw: read_len
    reason,         \* read_raw: reason
    tchar,          \* read_raw: the local term_char
    read_data,      \* read_raw: read_data
    address_list,   \* find_listeners: address_list
    found,          \* find_listeners: found
    addr_i,         \* find_listeners: position of the for loop in address_list
    sa,             \* find_listeners: sa
    probe,          \* find_listeners: 1 primary probe, 2 every sub-address,
                    \* 3 one sub-address
    pending,        \* find_listeners: exception caught by the except clause
    listeners,      \* bus: the listeners present, <<p>> or <<p, s>>
    ndac,           \* bus: NDAC is asserted
    transport,      \* rpc: class of the client, "tcp", "udp" or "bcast"
    rpc_pc,         \* rpc: "new" no client, "ready", "wait" inside the receive
                    \* loop of a call, "done" the call has returned or raised
    lastxid,        \* rpc: self.lastxid
    port,           \* rpc: self.port
    timeout,        \* rpc: timeout of do_call (udp), self.timeout (bcast)
    count,          \* rpc: count of do_call (udp)
    replies,        \* rpc: replies of make_call (bcast), each with the xid
                    \* it was decoded under
    reply_handler,  \* rpc: self.reply_handler is set (bcast)
    handled,        \* rpc: the calls of self.reply_handler in this call
    abort_client,   \* Device: self.abort_client, None or the port it is
                    \* connected to
    abort_req,      \* network: the last device_abort sent, its port and link
    mutex,          \* threads: the thread that holds the callers' mutex, or 0
    tpc,            \* threads: position of each thread, "idle", "locked",
                    \* "wait" inside do_call, "got" returned or raised
    txid,           \* threads: xid of start_call in each thread's make_call
    tres,           \* threads: outcome of each thread's last make_call
    wire,           \* network: reply records not yet read from the socket
    unanswered,     \* network: xids of the calls the server has not answered
    input,          \* argument of the function under study
    output,         \* its result
    result,         \* rpc: outcome of the constructor or of the last call that
                    \* has returned or raised
    sends,          \* network: transmissions of the current call
    waits,          \* network: the waits that elapsed with nothing received
    rcvd,           \* network: headers of the replies received by this call
    xids,           \* network: xids of the calls sent on this connection
    pmap,           \* network: port mapper connection, "none", "open", "closed"
    pmap_reply,     \* network: the port the port mapper answered
    connects        \* network: ports the client's socket was connected to

config == <<kind, name, py, term_char>>
device == <<link, client, abort_port, max_recv_size, locked, bus_address>>
locals == <<data, offset, num, flags, read_len, reason, tchar, read_data>>
scan == <<address_list, found, addr_i, sa, probe, pending>>
bus == <<listeners, ndac>>
abort_ch == <<abort_client, abort_req>>
thr == <<mutex, tpc, txid, tres, wire, unanswered>>
pure == <<input, output>>
rpc == <<transport, rpc_pc, lastxid, port, timeout, count, replies, result,
         sends, waits, rcvd, xids, pmap, pmap_reply, connects, reply_handler,
         handled>>
vars == <<kind, name, py, term_char, link, client, abort_port, max_recv_size,
          locked, bus_address, conns, created, pc, op, req, resp, honest, log, arg,
          delivered, done, data,
          offset, num, flags, read_len, reason, tchar, read_data,
          address_list, found, addr_i, sa, probe, pending, listeners, ndac,
          transport, rpc_pc, lastxid, port, timeout, count, replies, result,
          sends, waits, rcvd, xids, pmap, pmap_reply, connects, reply_handler,
          handled, abort_client, abort_req, mutex, tpc, txid, tres, wire,
          unanswered, input, output>>

----------------------------------------------------------------------------
(* Bounds of the model *)

MaxLen == 5
MaxRecv == 2
MaxReply == 2
MaxReqs == 4
MaxNum == 3

----------------------------------------------------------------------------
(* Constants of the program *)

OP_FLAG_END == 8
OP_FLAG_TERMCHAR_SET == 128
RX_REQCNT == 1
RX_CHR == 2
RX_END == 4
MAX_RECV_CEILING == 1048576

None == <<>>
Some(x) == <<x>>

Min(a, b) == IF a < b THEN a ELSE b

\* x | bit, for a single-bit mask
BitOr(x, bit) == IF (x \div bit) % 2 = 1 THEN x ELSE x + bit

\* x & (RX_END | RX_CHR)
AndEndChr(x) == ((x \div RX_CHR) % 2) * RX_CHR + ((x \div RX_END) % 2) * RX_END

\* Vxi11Exception.em
em == [e \in {0, 1, 3, 4, 5, 6, 8, 9, 11, 12, 15, 17, 21, 23, 29} |->
        CASE e = 0 -> "No error"
          [] e = 1 -> "Syntax error"
          [] e = 3 -> "Device not accessible"
          [] e = 4 -> "Invalid link identifier"
          [] e = 5 -> "Parameter error"
          [] e = 6 -> "Channel not established"
          [] e = 8 -> "Operation not supported"
          [] e = 9 -> "Out of resources"
          [] e = 11 -> "Device locked by another link"
          [] e = 12 -> "No lock held by this link"
          [] e = 15 -> "IO timeout"
          [] e = 17 -> "IO error"
          [] e = 21 -> "Invalid address"
          [] e = 23 -> "Abort"
          [] e = 29 -> "Channel already established"]

\* a lookup that has no text for the codes outside the table
ErrText_TableOnly(e) == IF e \in DOMAIN em THEN em[e] ELSE "No error"

\* lines 174-177: em[err] if err in em, "Unknown error" otherwise
ErrText(e) == IF e \in DOMAIN em THEN em[e] ELSE "Unknown error"

\* Vxi11Exception.__init__ ; err is <<"int", code>> or <<"str", text>>,
\* note is None or <<text>>
Vxi11Exception(err, note) ==
    [type |-> "Vxi11Exception",
     err  |-> err,
     note |-> note,
     msg  |-> (IF err[1] = "int"
                 THEN <<err[2], ErrText(err[2])>>
                 ELSE <<err[2]>>) \o note]

\* any other exception: a transport failure of rpc.py, a TypeError, ...
OtherException(what) ==
    [type |-> what, err |-> <<"none", 0>>, note |-> None, msg |-> <<>>]

NoException == [type |-> "none", err |-> <<"none", 0>>, note |-> None, msg |-> <<>>]

----------------------------------------------------------------------------
(* The device's side: the answers it may give *)

\* 0, a code of the table and a code that is not in it
ErrCodes == {0, 2, 4}
\* create_link answers <<link, abort_port>>: two devices' worth of handles
LinkReplies == { <<0, 1>>, <<7, 2>> }
RecvSizes == (0 .. MaxRecv) \cup {MAX_RECV_CEILING + 1}
BusAddrs == {5}
StatusBytes == {0, 64}
Reasons == {0, RX_REQCNT, RX_CHR, RX_END}
TermByte == 10

Names == { <<"i", "n", "s", "t", "0">>,
           <<"g", "p", "i", "b", "0">>,
           <<"g", "p", "i", "b", "0", ",", "5">> }

\* the payload of n bytes 1, 2, ..., n: every byte of it is distinct
Payload(n) == [i \in 1 .. n |-> i]

\* the k bytes that follow the p bytes already delivered by the device
Stream(p, k) == [i \in 1 .. k |-> p + i]

\* data[a:b] of Python, for 0 <= a and 0 <= b
Slice(s, a, b) ==
    IF a >= Min(b, Len(s)) THEN <<>> ELSE SubSeq(s, a + 1, Min(b, Len(s)))

NoResp == [kind |-> "none", error |-> 0, size |-> 0, reason |-> 0]

NoReq == [proc |-> "none", link |-> None, flags |-> 0, data |-> <<>>, size |-> 0, term |-> 0]

Request(proc, l, f, d, s, t) ==
    [proc |-> proc, link |-> l, flags |-> f, data |-> d, size |-> s, term |-> t]

BaseOps == {"open", "close", "write_raw", "read_raw", "trigger", "clear", "lock", "unlock"}
InstrumentOps == {"read_stb", "remote", "local"}
InterfaceOps == {"send_command"}
ScanOps == {"find_listeners"}
AbortOps == {"abort"}
BusAddrOps == {"set_bus_address", "pass_control"}
SetupOps == {"create_setup"}

OpsOf(k) ==
    BaseOps \cup AbortOps
    \cup (IF k = "Instrument" THEN InstrumentOps
          ELSE InterfaceOps \cup ScanOps \cup BusAddrOps \cup SetupOps)

\* the CoreClient method each simple operation calls
ProcOf(o) ==
    CASE o = "trigger" -> "device_trigger"
      [] o = "clear" -> "device_clear"
      [] o = "lock" -> "device_lock"
      [] o = "unlock" -> "device_unlock"
      [] o = "read_stb" -> "device_read_stb"
      [] o = "remote" -> "device_remote"
      [] o = "local" -> "device_local"
      [] o = "send_command" -> "device_docmd"

----------------------------------------------------------------------------
(* Leaving an operation *)

Send(r) ==
    /\ req' = r
    /\ log' = Append(log, r.proc)

NoSend ==
    /\ req' = NoReq
    /\ resp' = NoResp
    /\ log' = log

\* the call raised instead of returning a reply (socket.timeout, EOFError,
\* RPCError of rpc.py)
Fail == resp' = [kind |-> "fail", error |-> 0, size |-> 0, reason |-> 0]

Reply(error, size, rsn) ==
    resp' = [kind |-> "reply", error |-> error, size |-> size, reason |-> rsn]

Return(value) ==
    /\ pc' = "done"
    /\ done' = [op |-> op', status |-> "ok", exc |-> NoException, value |-> value]

Raise(exc) ==
    /\ pc' = "done"
    /\ done' = [op |-> op', status |-> "raised", exc |-> exc, value |-> <<>>]

----------------------------------------------------------------------------
(* Entering the body of an operation, once the link is open *)

NoResult == [op |-> "none", status |-> "none", exc |-> NoException, value |-> <<>>]

Running(o) == [op |-> o, status |-> "running", exc |-> NoException, value |-> <<>>]

\* write_raw, lines 637-648: the terminator, flags, num, offset and the
\* first test of the loop.  str(term_char).encode('utf-8')[0] is a one
\* character string in Python 2 and an int in Python 3, where bytes += int
\* raises TypeError.
EnterWrite(d) ==
    IF term_char /= None /\ py = 3
      THEN /\ Raise(OtherException("TypeError"))
           /\ data' = d /\ offset' = 0 /\ num' = 0 /\ flags' = 0
           /\ read_len' = 0 /\ reason' = 0 /\ tchar' = 0 /\ read_data' = <<>>
      ELSE LET d2 == IF term_char /= None THEN d \o <<term_char[1]>> ELSE d
           IN  /\ data' = d2
               /\ flags' = 0
               /\ num' = Len(d2)
               /\ offset' = 0
               /\ read_len' = 0 /\ reason' = 0 /\ tchar' = 0 /\ read_data' = <<>>
               /\ IF Len(d2) > 0
                    THEN pc' = "write" /\ done' = Running(op')
                    ELSE Return(<<>>)

\* read_raw, lines 675-690: read_len, flags, reason, term_char, read_data
EnterRead(n) ==
    /\ num' = n
    /\ read_len' = IF n > 0 /\ n < max_recv_size' THEN n ELSE max_recv_size'
    /\ flags' = IF term_char /= None THEN OP_FLAG_TERMCHAR_SET ELSE 0
    /\ reason' = 0
    /\ tchar' = IF term_char /= None THEN term_char[1] ELSE 0
    /\ read_data' = <<>>
    /\ data' = <<>> /\ offset' = 0
    /\ pc' = "read"
    /\ done' = Running(op')

EnterBody(o, d, n) ==
    CASE o = "write_raw" -> EnterWrite(d)
      [] o = "read_raw" -> EnterRead(n)
      [] o = "find_listeners" ->
                  /\ pc' = "fl_lock"
                  /\ done' = Running(op')
                  /\ data' = d /\ num' = n
                  /\ offset' = 0 /\ flags' = 0 /\ read_len' = 0
                  /\ reason' = 0 /\ tchar' = 0 /\ read_data' = <<>>
      [] o \in BusAddrOps ->
                  /\ pc' = "addr"
                  /\ done' = Running(op')
                  /\ data' = d /\ num' = n
                  /\ offset' = 0 /\ flags' = 0 /\ read_len' = 0
                  /\ reason' = 0 /\ tchar' = 0 /\ read_data' = <<>>
      [] o = "abort" ->
                  /\ pc' = "abort"
                  /\ done' = Running(op')
                  /\ data' = d /\ num' = n
                  /\ offset' = 0 /\ flags' = 0 /\ read_len' = 0
                  /\ reason' = 0 /\ tchar' = 0 /\ read_data' = <<>>
      [] OTHER -> /\ pc' = "call"
                  /\ done' = Running(op')
                  /\ data' = d /\ num' = n
                  /\ offset' = 0 /\ flags' = 0 /\ read_len' = 0
                  /\ reason' = 0 /\ tchar' = 0 /\ read_data' = <<>>

\* the rest of open() and of the operation that called it
AfterOpen ==
    IF op = "open"
      THEN Return(<<>>) /\ UNCHANGED locals
      ELSE EnterBody(op, data, num)

----------------------------------------------------------------------------
(* A public operation is called *)

ReadNums == (-1 .. MaxNum)
CommandBytes == { <<63>> }

\* address_list of find_listeners: None, or a list whose entries are an
\* int p, written <<p>>, or a tuple (p, s), written <<p, s>>
AddressLists == { None,
                  << <<5>>, <<12>> >>,
                  << <<12, 3>>, <<31>> >> }

\* open() that goes on to create a link whatever the state
AlreadyOpen_Never == FALSE

\* open(), line 586: if self.link is not None: return
AlreadyOpen == link /= None

\* an operation without its lazy open()
NeedsOpen_Never == FALSE

\* every other operation: if self.link is None: self.open()
NeedsOpen == link = None

\* an error test that takes positive codes for success
Failed_Negative(error) == error < 0

\* if error: raise Vxi11Exception(error, ...)
Failed(error) == error /= 0

HasComma(s) == \E i \in 1 .. Len(s) : s[i] = ","

GPIB_CMD_LAD == 32
GPIB_CMD_UNL == 63
GPIB_CMD_TAD == 64
GPIB_CMD_UNT == 95
GPIB_CMD_SAD == 96

\* the addr argument of set_bus_address and pass_control
AddrArgs == {-1, 0, 12, 30, 31}

\* the address_list argument of create_setup: an int, or a list whose
\* entries are an int p, written <<p>>, or a tuple (p, s), written <<p, s>>
SetupArgs ==
    { [form |-> "int", val |-> 9],
      [form |-> "int", val |-> 31],
      [form |-> "list", val |-> <<>>],
      [form |-> "list", val |-> << <<0>>, <<30, 30>> >>],
      [form |-> "list", val |-> << <<12, 3>>, <<5>>, <<12, 0>> >>],
      [form |-> "list", val |-> << <<5>>, <<31>> >>],
      [form |-> "list", val |-> << <<5>>, <<-1, 3>> >>],
      [form |-> "list", val |-> << <<5, 31>>, <<6>> >>],
      [form |-> "list", val |-> << <<5, -1>> >>] }

\* a range test that lets 31 through
ValidAddr_UpTo31(a) == ~(a < 0 \/ a > 31)

\* if addr < 0 or addr > 30: raise Vxi11Exception("Invalid address", ...)
ValidAddr(a) == ~(a < 0 \/ a > 30)

\* x | GPIB_CMD_SAD: both bits of 0x60
OrSad(x) == BitOr(BitOr(x, GPIB_CMD_LAD), GPIB_CMD_TAD)

\* the header find_listeners builds for its probes
SetupHeader_Probe(b) == <<GPIB_CMD_UNL, GPIB_CMD_UNT, BitOr(b, GPIB_CMD_TAD)>>

\* create_setup, line 869:
\* bytearray([self._bus_address | GPIB_CMD_TAD, GPIB_CMD_UNL])
SetupHeader(b) == <<BitOr(b, GPIB_CMD_TAD), GPIB_CMD_UNL>>

\* create_setup, lines 874-886: the for loop from entry i on, acc being
\* data; None when an entry raises
RECURSIVE SetupLoop(_, _, _)
SetupLoop(al, i, acc) ==
    IF i > Len(al) THEN Some(acc)
    ELSE LET addr == al[i]
         IN  IF ~ValidAddr(addr[1]) THEN None
             ELSE IF Len(addr) > 1
               THEN IF ~ValidAddr(addr[2]) THEN None
                    ELSE SetupLoop(al, i + 1,
                                   acc \o <<BitOr(addr[1], GPIB_CMD_LAD), OrSad(addr[2])>>)
             ELSE SetupLoop(al, i + 1, acc \o <<BitOr(addr[1], GPIB_CMD_LAD)>>)

\* InterfaceDevice.create_setup: Some(bytes), or None when it raises
CreateSetup(b, al) ==
    SetupLoop(IF al.form = "int" THEN << <<al.val>> >> ELSE al.val,
              1, SetupHeader(b))

InvalidAddress(o) == Vxi11Exception(<<"str", "Invalid address">>, Some(o))

Invoke(o) ==
    /\ pc = "idle"
    /\ UNCHANGED <<rpc, abort_ch, thr, pure>>
    /\ o \in OpsOf(kind)
    /\ op' = o
    /\ log' = <<>>
    /\ req' = NoReq
    /\ resp' = NoResp
    /\ honest' = TRUE
    /\ delivered' = 0
    /\ UNCHANGED <<config, device, conns, created, bus>>
    /\ UNCHANGED <<found, addr_i, sa, probe, pending>>
    /\ \E d \in (IF o = "write_raw" THEN {Payload(n) : n \in 0 .. MaxLen}
                 ELSE IF o = "send_command" THEN CommandBytes
                 ELSE IF o = "find_listeners" THEN AddressLists
                 ELSE IF o \in BusAddrOps THEN { <<a>> : a \in AddrArgs }
                 ELSE IF o = "create_setup" THEN SetupArgs ELSE { <<>> }),
          n \in (IF o = "read_raw" THEN ReadNums ELSE {0}) :
      /\ arg' = IF o = "read_raw" THEN <<n>> ELSE d
      /\ address_list' = IF o = "find_listeners" THEN d ELSE None
      /\ CASE o = "open" ->
                     IF AlreadyOpen
                       THEN Return(<<>>) /\ UNCHANGED locals
                       ELSE pc' = "open" /\ done' = Running(o) /\ UNCHANGED locals
              [] o = "close" ->
                     IF link = None
                       THEN Return(<<>>) /\ UNCHANGED locals
                       ELSE pc' = "close" /\ done' = Running(o) /\ UNCHANGED locals
              [] o = "create_setup" ->
                     /\ UNCHANGED locals
                     /\ IF CreateSetup(bus_address, d) = None
                          THEN Raise(InvalidAddress(o))
                          ELSE Return(CreateSetup(bus_address, d)[1])
              [] o \in BusAddrOps /\ ~ValidAddr(d[1]) ->
                     /\ UNCHANGED locals
                     /\ Raise(InvalidAddress(o))
              [] OTHER ->
                     IF NeedsOpen
                       THEN /\ pc' = "open"
                            /\ done' = Running(o)
                            /\ data' = d /\ num' = n
                            /\ offset' = 0 /\ flags' = 0 /\ read_len' = 0
                            /\ reason' = 0 /\ tchar' = 0 /\ read_data' = <<>>
                       ELSE EnterBody(o, d, n)

----------------------------------------------------------------------------
(* open(): Device.open and InterfaceDevice.open *)

\* a reply is drawn only while the operation has sent fewer than MaxReqs
\* requests; after that the socket times out
ReplyAllowed == Len(log) < MaxReqs

\* an open() that takes the size of the device as it is
Negotiated_Unclamped(mrs) == mrs

\* open(), line 606: self.max_recv_size = min(max_recv_size, 1024*1024)
Negotiated(mrs) == Min(mrs, MAX_RECV_CEILING)

OpenStep ==
    /\ pc = "open"
    /\ UNCHANGED <<rpc, abort_ch, thr, pure>>
    /\ UNCHANGED <<config, op, arg, delivered, honest, locked, bus_address, scan, bus>>
    /\ IF kind = "InterfaceDevice" /\ HasComma(name)
         THEN /\ Raise(Vxi11Exception(<<"str", "Cannot specify address for InterfaceDevice">>, None))
              /\ UNCHANGED <<link, client, abort_port, max_recv_size, conns, created, locals>>
              /\ NoSend
         ELSE \/ \* CoreClient(self.host) raises: refused, or not registered
                 /\ client = None
                 /\ Raise(OtherException("RPCError"))
                 /\ UNCHANGED <<link, client, abort_port, max_recv_size, conns, created, locals>>
                 /\ NoSend
              \/ /\ client' = Some("CoreClient")
                 /\ conns' = IF client = None THEN conns + 1 ELSE conns
                 /\ Send(Request("create_link", None, 0, name, 0, 0))
                 /\ \/ \* make_call raises
                       /\ Fail
                       /\ Raise(OtherException("RPCError"))
                       /\ UNCHANGED <<link, abort_port, max_recv_size, created, locals>>
                    \/ ReplyAllowed /\ \E error \in ErrCodes :
                         IF Failed(error)
                           THEN /\ Reply(error, 0, 0)
                                /\ Raise(Vxi11Exception(<<"int", error>>, Some("open")))
                                /\ UNCHANGED <<link, abort_port, max_recv_size, created, locals>>
                           ELSE \E lr \in LinkReplies, mrs \in RecvSizes :
                                /\ Reply(error, mrs, 0)
                                /\ abort_port' = lr[2]
                                /\ link' = Some(lr[1])
                                /\ max_recv_size' = Negotiated(mrs)
                                /\ created' = Some(lr[1])
                                /\ IF kind = "InterfaceDevice"
                                     THEN pc' = "busaddr" /\ UNCHANGED <<done, locals>>
                                     ELSE AfterOpen

\* struct.pack('!H', val) and struct.unpack('!H', data_out)[0]
PackH(v) == << v \div 256, v % 256 >>
UnpackH(b) == b[1] * 256 + b[2]

CMD_BUS_STATUS_BUS_ADDRESS == 8

BusAddrReplies == {PackH(a) : a \in BusAddrs} \cup { <<5>> }

\* InterfaceDevice.open, line 843: self._bus_address = self.get_bus_address()
BusAddrStep ==
    /\ pc = "busaddr"
    /\ UNCHANGED <<rpc, abort_ch, thr, pure>>
    /\ UNCHANGED <<config, op, arg, delivered, honest, link, client, abort_port, max_recv_size, locked, conns, created, scan, bus>>
    /\ Send(Request("device_docmd", link, 0, PackH(CMD_BUS_STATUS_BUS_ADDRESS), 2, 0))
    /\ \/ /\ Fail
          /\ Raise(OtherException("RPCError"))
          /\ UNCHANGED <<bus_address, locals>>
       \/ ReplyAllowed /\ \E error \in ErrCodes :
            IF Failed(error)
              THEN /\ Reply(error, 0, 0)
                   /\ Raise(Vxi11Exception(<<"int", error>>, Some("bus_status")))
                   /\ UNCHANGED <<bus_address, locals>>
              ELSE \E data_out \in BusAddrReplies :
                   /\ Reply(error, Len(data_out), 0)
                   /\ IF Len(data_out) /= 2
                        THEN /\ Raise(OtherException("struct.error"))
                             /\ UNCHANGED <<bus_address, locals>>
                        ELSE /\ bus_address' = UnpackH(data_out)
                             /\ AfterOpen

----------------------------------------------------------------------------
(* close() *)

CloseStep ==
    /\ pc = "close"
    /\ UNCHANGED <<rpc, abort_ch, thr, pure>>
    /\ UNCHANGED <<config, op, arg, delivered, honest, abort_port, max_recv_size, locked, bus_address, created, locals, scan, bus>>
    /\ Send(Request("destroy_link", link, 0, <<>>, 0, 0))
    /\ \/ \* destroy_link raises: nothing after it runs
          /\ Fail
          /\ Raise(OtherException("RPCError"))
          /\ UNCHANGED <<link, client, conns>>
       \/ ReplyAllowed /\ \E error \in ErrCodes :
            /\ Reply(error, 0, 0)
            /\ conns' = conns - 1
            /\ link' = None
            /\ client' = None
            /\ Return(<<>>)

----------------------------------------------------------------------------
(* set_bus_address and pass_control, after the range test and the lazy open() *)

\* struct.pack('!L', addr)
PackL(v) == << v \div 16777216, (v \div 65536) % 256, (v \div 256) % 256, v % 256 >>

AddrReplies == {PackL(a) : a \in BusAddrs} \cup { <<5>> }

\* set_bus_address, lines 1044-1047: self._bus_address = addr comes after
\* if error: raise; pass_control has no such line
RecordedAddr(o, error, cur, addr) ==
    IF o = "set_bus_address" /\ ~Failed(error) THEN addr ELSE cur

AddrStep ==
    /\ pc = "addr"
    /\ UNCHANGED <<rpc, abort_ch, thr, pure>>
    /\ UNCHANGED <<config, op, arg, delivered, honest, link, client, abort_port,
                   max_recv_size, locked, conns, created, locals, scan, bus>>
    /\ Send(Request("device_docmd", link, 0, PackL(data[1]), 4, 0))
    /\ \/ /\ Fail
          /\ Raise(OtherException("RPCError"))
          /\ UNCHANGED bus_address
       \/ ReplyAllowed /\ \E error \in ErrCodes, data_out \in AddrReplies :
            /\ Reply(error, Len(data_out), 0)
            /\ bus_address' = RecordedAddr(op, error, bus_address, data[1])
            /\ IF Failed(error)
                 THEN Raise(Vxi11Exception(<<"int", error>>, Some(op)))
                 ELSE IF Len(data_out) /= 4
                   THEN Raise(OtherException("struct.error"))
                   ELSE Return(<<data_out[4]>>)

----------------------------------------------------------------------------
(* abort(), after its lazy open() *)

\* line 623: if self.abort_client is None: (else the client made by an
\* earlier abort() is used)
AbortCached(ac) == ac /= None

\* lines 623-630
AbortStep ==
    /\ pc = "abort"
    /\ UNCHANGED <<rpc, thr, pure>>
    /\ UNCHANGED <<config, op, arg, delivered, honest, device, conns, created, locals,
                   scan, bus, req, log>>
    /\ \/ \* AbortClient(self.host, self.abort_port) raises
          /\ ~AbortCached(abort_client)
          /\ UNCHANGED <<abort_client, abort_req, resp>>
          /\ Raise(OtherException("RPCError"))
       \/ /\ abort_client' = IF AbortCached(abort_client) THEN abort_client
                              ELSE Some(abort_port)
          /\ abort_req' = Some([port |-> abort_client'[1], link |-> link])
          /\ \/ /\ Fail
                /\ Raise(OtherException("RPCError"))
             \/ \E error \in ErrCodes :
                  /\ Reply(error, 0, 0)
                  /\ IF Failed(error)
                       THEN Raise(Vxi11Exception(<<"int", error>>, Some("abort")))
                       ELSE Return(<<>>)

----------------------------------------------------------------------------
(* trigger, clear, lock, unlock, read_stb, remote, local, send_command *)

\* unlock() that forgets the flag
LockedAfter_Sticky(o, cur) ==
    CASE o = "lock" -> TRUE
      [] OTHER -> cur

\* lock(), line 795 and unlock(), line 809
LockedAfter(o, cur) ==
    CASE o = "lock" -> TRUE
      [] o = "unlock" -> FALSE
      [] OTHER -> cur

SimpleStep ==
    /\ pc = "call"
    /\ UNCHANGED <<rpc, abort_ch, thr, pure>>
    /\ UNCHANGED <<config, op, arg, delivered, honest, link, client, abort_port, max_recv_size, bus_address, conns, created, locals, scan, bus>>
    /\ Send(Request(ProcOf(op), link, 0, data, IF op = "send_command" THEN 1 ELSE 0, 0))
    /\ \/ /\ Fail
          /\ Raise(OtherException("RPCError"))
          /\ UNCHANGED locked
       \/ ReplyAllowed /\ \E error \in ErrCodes :
            IF Failed(error)
              THEN /\ Reply(error, 0, 0)
                   /\ Raise(Vxi11Exception(<<"int", error>>, Some(op)))
                   /\ UNCHANGED locked
              ELSE \E stb \in (IF op = "read_stb" THEN StatusBytes ELSE {0}) :
                   /\ Reply(error, 0, 0)
                   /\ locked' = LockedAfter(op, locked)
                   /\ Return(IF op = "read_stb" THEN <<stb>> ELSE <<>>)

----------------------------------------------------------------------------
(* write_raw: one turn of the loop of lines 648-668 *)

\* END only when the rest is shorter than a full block
LastBlock_Strict(n, m) == n < m

\* line 649: if num <= self.max_recv_size: flags |= OP_FLAG_END
LastBlock(n, m) == n <= m

\* a block one byte too long
Block_OneMore(d, off, m) == Slice(d, off, off + m + 1)

\* line 652: block = data[offset:offset+self.max_recv_size]
Block(d, off, m) == Slice(d, off, off + m)

\* a write that resumes after a partial block
ShortWrite_Never(size, block) == FALSE

\* line 664: elif size < len(block)
ShortWrite(size, block) == size < Len(block)

WriteStep ==
    /\ pc = "write"
    /\ UNCHANGED <<rpc, abort_ch, thr, pure>>
    /\ UNCHANGED <<config, op, arg, delivered, device, conns, created,
                   data, read_len, reason, tchar, read_data, scan, bus>>
    /\ LET f2 == IF LastBlock(num, max_recv_size) THEN BitOr(flags, OP_FLAG_END) ELSE flags
           block == Block(data, offset, max_recv_size)
       IN  /\ flags' = f2
           /\ Send(Request("device_write", link, f2, block, 0, 0))
           /\ \/ /\ Fail
                 /\ Raise(OtherException("RPCError"))
                 /\ UNCHANGED <<offset, num, honest>>
              \/ ReplyAllowed /\ \E error \in ErrCodes, size \in 0 .. Len(block) + 1 :
                   /\ Reply(error, size, 0)
                   /\ honest' = (honest /\ error = 0 /\ size = Len(block))
                   /\ IF Failed(error)
                        THEN /\ Raise(Vxi11Exception(<<"int", error>>, Some("write")))
                             /\ UNCHANGED <<offset, num>>
                        ELSE IF ShortWrite(size, block)
                               THEN /\ Raise(Vxi11Exception(<<"str", "did not write complete block">>, Some("write")))
                                    /\ UNCHANGED <<offset, num>>
                               ELSE /\ offset' = offset + size
                                    /\ num' = num - size
                                    /\ IF num - size > 0
                                         THEN pc' = "write" /\ UNCHANGED done
                                         ELSE Return(<<>>)

----------------------------------------------------------------------------
(* read_raw: one turn of the loop of lines 690-712 *)

\* a loop that looks at RX_END alone
MoreToRead_EndOnly(rsn) == (rsn \div RX_END) % 2 = 0

\* line 690: while reason & (RX_END | RX_CHR) == 0
MoreToRead(rsn) == AndEndChr(rsn) = 0

\* a request size that is never trimmed
NextReadLen_Keep(n, rl) == rl

\* lines 709-710: if num < read_len: read_len = num
NextReadLen(n, rl) == IF n < rl THEN n ELSE rl

ReadStep ==
    /\ pc = "read"
    /\ UNCHANGED <<rpc, abort_ch, thr, pure>>
    /\ UNCHANGED <<config, op, arg, device, conns, created, data, offset, flags, tchar, scan, bus>>
    /\ IF py = 2 /\ term_char /= None
         THEN \* pack_int of a one character string raises before anything is sent
              /\ Raise(OtherException("struct.error"))
              /\ NoSend
              /\ UNCHANGED <<delivered, honest, num, read_len, reason, read_data>>
         ELSE /\ Send(Request("device_read", link, flags, <<>>, read_len, tchar))
              /\ \/ /\ Fail
                    /\ Raise(OtherException("RPCError"))
                    /\ UNCHANGED <<delivered, honest, num, read_len, reason, read_data>>
                 \/ ReplyAllowed /\ \E error \in ErrCodes :
                      IF Failed(error)
                        THEN /\ Reply(error, 0, 0)
                             /\ Raise(Vxi11Exception(<<"int", error>>, Some("read")))
                             /\ UNCHANGED <<delivered, honest, num, read_len, reason, read_data>>
                        ELSE \E rsn \in Reasons, k \in 0 .. MaxReply :
                             LET rd == read_data \o Stream(delivered, k)
                             IN  /\ Reply(error, k, rsn)
                                 /\ honest' = (honest /\ k <= read_len)
                                 /\ delivered' = delivered + k
                                 /\ reason' = rsn
                                 /\ read_data' = rd
                                 /\ IF num > 0
                                      THEN /\ num' = num - k
                                           /\ IF num - k <= 0
                                                THEN /\ read_len' = read_len
                                                     /\ Return(rd)
                                                ELSE /\ read_len' = NextReadLen(num - k, read_len)
                                                     /\ IF MoreToRead(rsn)
                                                          THEN pc' = "read" /\ UNCHANGED done
                                                          ELSE Return(rd)
                                      ELSE /\ UNCHANGED <<num, read_len>>
                                           /\ IF MoreToRead(rsn)
                                                THEN pc' = "read" /\ UNCHANGED done
                                                ELSE Return(rd)

----------------------------------------------------------------------------
(* InterfaceDevice.find_listeners: one RPC exchange per step *)

CMD_BUS_STATUS_NDAC == 3

\* range(31): the primary addresses, and the sub-addresses of each
NumAddrs == 31

\* the buses of the model: nothing, a listener at 5 and one at (12, 3), and
\* a device that answers at 7 alone next to sub-addresses (7, 2), (9, 0)
\* and (9, 30)
Buses == { {},
           { <<5>>, <<12, 3>> },
           { <<7>>, <<7, 2>>, <<9, 0>>, <<9, 30>> } }

\* lines 1078-1079: list(range(31)) without self._bus_address
\* a default list that keeps the controller's own address
DefaultList_All(b) == [i \in 1 .. NumAddrs |-> <<i - 1>>]

\* lines 1077-1079: list(range(31)) without self._bus_address
DefaultList(b) ==
    SelectSeq([i \in 1 .. NumAddrs |-> <<i - 1>>], LAMBDA a : a[1] /= b)

\* bytearray([GPIB_CMD_UNL, GPIB_CMD_UNT]) and self._bus_address | GPIB_CMD_TAD
\* (an address below 32 has no bit in common with the command bases)
ProbeHeader(b) == <<GPIB_CMD_UNL, GPIB_CMD_UNT, b + GPIB_CMD_TAD>>

\* the command of each probe: lines 1087-1093, 1101-1105 and 1112-1115
ProbeCmd(lvl, b, a, s) ==
    CASE lvl = 1 -> ProbeHeader(b) \o <<a + GPIB_CMD_LAD>>
      [] lvl = 2 -> ProbeHeader(b) \o <<a + GPIB_CMD_LAD>>
                    \o [k \in 1 .. NumAddrs |-> (k - 1) + GPIB_CMD_SAD]
      [] lvl = 3 -> ProbeHeader(b) \o <<a + GPIB_CMD_LAD, s + GPIB_CMD_SAD>>

\* bus: the listeners of L that the command bytes cmd[i..] address, cur
\* being the primary address named last (-1: none) and acc those addressed
\* so far.  Unlisten releases every listener; a listen address selects the
\* device at that primary address; a secondary address selects the device
\* at that sub-address of the primary named last.
RECURSIVE Listen(_, _, _, _, _)
Listen(L, cmd, i, cur, acc) ==
    IF i > Len(cmd) THEN acc
    ELSE LET b == cmd[i]
         IN  IF b = GPIB_CMD_UNL
               THEN Listen(L, cmd, i + 1, -1, {})
             ELSE IF b >= GPIB_CMD_LAD /\ b < GPIB_CMD_UNL
               THEN Listen(L, cmd, i + 1, b - GPIB_CMD_LAD,
                           acc \cup ({ <<b - GPIB_CMD_LAD>> } \cap L))
             ELSE IF b >= GPIB_CMD_SAD /\ b < GPIB_CMD_SAD + NumAddrs /\ cur >= 0
               THEN Listen(L, cmd, i + 1, cur,
                           acc \cup ({ <<cur, b - GPIB_CMD_SAD>> } \cap L))
             ELSE Listen(L, cmd, i + 1, cur, acc)

\* an exception that leaves find_listeners at once, the lock still held
ScanRaise_NoCleanup(exc) ==
    /\ Raise(exc)
    /\ pending' = exc

\* lines 1083-1124: an exception raised inside the try goes to the except
\* clause, which calls unlock() before it raises again
ScanRaise(exc) ==
    /\ pc' = "fl_except"
    /\ pending' = exc
    /\ done' = done

\* a test that takes every probe for unanswered
NdacSet_Never(v) == FALSE

\* if self.test_ndac():
NdacSet(v) == v /= 0

\* the head of the for loop, lines 1085-1092, for the entry at position i
NextAddr(al, i) ==
    /\ addr_i' = i
    /\ sa' = 0
    /\ IF i > Len(al)
         THEN /\ pc' = "fl_unlock"
              /\ probe' = 0
              /\ UNCHANGED <<pending, done>>
         ELSE IF al[i][1] < 0 \/ al[i][1] > 30
                THEN /\ ScanRaise(Vxi11Exception(<<"str", "Invalid address">>,
                                                 Some("find_listeners")))
                     /\ probe' = 0
                ELSE /\ pc' = "fl_cmd"
                     /\ probe' = 1
                     /\ UNCHANGED <<pending, done>>

\* lines 1077-1084: the default address list, then self.lock()
ScanLock ==
    /\ pc = "fl_lock"
    /\ UNCHANGED <<rpc, abort_ch, thr, pure>>
    /\ UNCHANGED <<config, op, arg, delivered, honest, link, client, abort_port,
                   max_recv_size, bus_address, conns, created, locals, found, bus>>
    /\ Send(Request("device_lock", link, 0, <<>>, 0, 0))
    /\ LET al == IF address_list = None THEN DefaultList(bus_address) ELSE address_list
       IN  /\ address_list' = al
           /\ \/ /\ Fail
                 /\ ScanRaise(OtherException("RPCError"))
                 /\ UNCHANGED <<locked, addr_i, sa, probe>>
              \/ \E error \in ErrCodes :
                   /\ Reply(error, 0, 0)
                   /\ IF Failed(error)
                        THEN /\ ScanRaise(Vxi11Exception(<<"int", error>>, Some("lock")))
                             /\ UNCHANGED <<locked, addr_i, sa, probe>>
                        ELSE /\ locked' = LockedAfter("lock", locked)
                             /\ NextAddr(al, 1)

\* self.send_command(cmd)
ScanCommand ==
    /\ pc = "fl_cmd"
    /\ UNCHANGED <<rpc, abort_ch, thr, pure>>
    /\ UNCHANGED <<config, op, arg, delivered, honest, device, conns, created, locals,
                   address_list, found, addr_i, sa, probe, listeners>>
    /\ LET cmd == ProbeCmd(probe, bus_address, address_list[addr_i][1], sa)
       IN  /\ Send(Request("device_docmd", link, 0, cmd, 1, 0))
           /\ \/ /\ Fail
                 /\ ScanRaise(OtherException("RPCError"))
                 /\ UNCHANGED ndac
              \/ \E error \in ErrCodes :
                   /\ Reply(error, 0, 0)
                   /\ IF Failed(error)
                        THEN /\ ScanRaise(Vxi11Exception(<<"int", error>>, Some("send_command")))
                             /\ UNCHANGED ndac
                        ELSE /\ ndac' = (Listen(listeners, cmd, 1, -1, {}) /= {})
                             /\ pc' = "fl_atn"
                             /\ UNCHANGED <<pending, done>>

\* self.set_atn(False)
ScanAtn ==
    /\ pc = "fl_atn"
    /\ UNCHANGED <<rpc, abort_ch, thr, pure>>
    /\ UNCHANGED <<config, op, arg, delivered, honest, device, conns, created, locals,
                   address_list, found, addr_i, sa, probe, bus>>
    /\ Send(Request("device_docmd", link, 0, PackH(0), 2, 0))
    /\ \/ /\ Fail
          /\ ScanRaise(OtherException("RPCError"))
       \/ \E error \in ErrCodes :
            /\ Reply(error, 2, 0)
            /\ IF Failed(error)
                 THEN ScanRaise(Vxi11Exception(<<"int", error>>, Some("set_atn")))
                 ELSE /\ pc' = "fl_ndac"
                      /\ UNCHANGED <<pending, done>>

\* if self.test_ndac(): ... else: ..., and the step to the next probe
ScanNdac ==
    /\ pc = "fl_ndac"
    /\ UNCHANGED <<rpc, abort_ch, thr, pure>>
    /\ UNCHANGED <<config, op, arg, delivered, honest, device, conns, created, locals,
                   address_list, bus>>
    /\ Send(Request("device_docmd", link, 0, PackH(CMD_BUS_STATUS_NDAC), 2, 0))
    /\ \/ /\ Fail
          /\ ScanRaise(OtherException("RPCError"))
          /\ UNCHANGED <<found, addr_i, sa, probe>>
       \/ \E error \in ErrCodes :
            /\ Reply(error, 2, 0)
            /\ IF Failed(error)
                 THEN /\ ScanRaise(Vxi11Exception(<<"int", error>>, Some("bus_status")))
                      /\ UNCHANGED <<found, addr_i, sa, probe>>
                 ELSE LET v == UnpackH(PackH(IF ndac THEN 1 ELSE 0))
                          a == address_list[addr_i][1]
                      IN  CASE probe = 1 ->
                                 IF NdacSet(v)
                                   THEN /\ found' = Append(found, <<a>>)
                                        /\ NextAddr(address_list, addr_i + 1)
                                   ELSE /\ probe' = 2
                                        /\ pc' = "fl_cmd"
                                        /\ UNCHANGED <<found, addr_i, sa, pending, done>>
                            [] probe = 2 ->
                                 IF NdacSet(v)
                                   THEN /\ probe' = 3
                                        /\ sa' = 0
                                        /\ pc' = "fl_cmd"
                                        /\ UNCHANGED <<found, addr_i, pending, done>>
                                   ELSE /\ found' = found
                                        /\ NextAddr(address_list, addr_i + 1)
                            [] probe = 3 ->
                                 /\ found' = IF NdacSet(v) THEN Append(found, <<a, sa>>)
                                             ELSE found
                                 /\ IF sa + 1 < NumAddrs
                                      THEN /\ sa' = sa + 1
                                           /\ pc' = "fl_cmd"
                                           /\ UNCHANGED <<addr_i, probe, pending, done>>
                                      ELSE NextAddr(address_list, addr_i + 1)

\* line 1121: self.unlock() at the end of the try
ScanUnlock ==
    /\ pc = "fl_unlock"
    /\ UNCHANGED <<rpc, abort_ch, thr, pure>>
    /\ UNCHANGED <<config, op, arg, delivered, honest, link, client, abort_port,
                   max_recv_size, bus_address, conns, created, locals,
                   address_list, found, addr_i, sa, probe, bus>>
    /\ Send(Request("device_unlock", link, 0, <<>>, 0, 0))
    /\ \/ /\ Fail
          /\ ScanRaise(OtherException("RPCError"))
          /\ UNCHANGED locked
       \/ \E error \in ErrCodes :
            /\ Reply(error, 0, 0)
            /\ IF Failed(error)
                 THEN /\ ScanRaise(Vxi11Exception(<<"int", error>>, Some("unlock")))
                      /\ UNCHANGED locked
                 ELSE /\ locked' = LockedAfter("unlock", locked)
                      /\ Return(found)
                      /\ UNCHANGED pending

\* lines 1122-1124: except: self.unlock(); raise
ScanExcept ==
    /\ pc = "fl_except"
    /\ UNCHANGED <<rpc, abort_ch, thr, pure>>
    /\ UNCHANGED <<config, op, arg, delivered, honest, link, client, abort_port,
                   max_recv_size, bus_address, conns, created, locals, scan, bus>>
    /\ Send(Request("device_unlock", link, 0, <<>>, 0, 0))
    /\ \/ /\ Fail
          /\ Raise(OtherException("RPCError"))
          /\ UNCHANGED locked
       \/ \E error \in ErrCodes :
            /\ Reply(error, 0, 0)
            /\ IF Failed(error)
                 THEN /\ Raise(Vxi11Exception(<<"int", error>>, Some("unlock")))
                      /\ UNCHANGED locked
                 ELSE /\ locked' = LockedAfter("unlock", locked)
                      /\ Raise(pending)

----------------------------------------------------------------------------
(* rpc.py: TCPClient, UDPClient and RawBroadcastUDPClient.  One step is the
   constructor, the start of a call, or one turn of the receive loop. *)

\* calls made on one connection, and replies one call receives
MaxCalls == 3
MaxRcvd == 2

CALL == 0
REPLY == 1
MSG_ACCEPTED == 0
MSG_DENIED == 1
SUCCESS == 0
PROG_UNAVAIL == 1
PROG_MISMATCH == 2
PROC_UNAVAIL == 3
GARBAGE_ARGS == 4
RPC_MISMATCH == 0
AUTH_ERROR == 1

\* RawUDPClient.do_call: timeout = 1, count = 5, if timeout < 25
FIRST_TIMEOUT == 1
RETRY_COUNT == 5
TIMEOUT_LIMIT == 25

\* RawBroadcastUDPClient.__init__: self.timeout = 30
BCAST_TIMEOUT == 30

\* the port argument of the constructor and the answer of the port
\* mapper: 0, or the port of the program
Ports == {0, 1024}

dev_all == <<config, device, conns, created, pc, op, req, resp, honest, log, arg,
             delivered, done, locals, scan, bus, abort_ch, thr, pure>>

NoOutcome == [op |-> "none", status |-> "none", exc |-> "", from |-> <<>>]

\* the header of a reply: xid, message type, reply status and, under it,
\* the accept status or the reject status
ReplyHeaders(last) ==
    [xid : 1 .. last + 1, mtype : {REPLY}, stat : {MSG_ACCEPTED, MSG_DENIED}, sub : 0 .. 5]
    \cup [xid : {last}, mtype : {CALL}, stat : {MSG_ACCEPTED}, sub : {SUCCESS}]
    \cup [xid : {last}, mtype : {REPLY}, stat : {2}, sub : {SUCCESS}]

\* an unpacker that lets every accepted reply through
HeaderError_AcceptedOnly(r) ==
    IF r.mtype /= REPLY THEN "no REPLY"
    ELSE IF r.stat = MSG_DENIED THEN "MSG_DENIED"
    ELSE IF r.stat /= MSG_ACCEPTED THEN "Neither MSG_DENIED nor MSG_ACCEPTED"
    ELSE ""

\* Unpacker.unpack_replyheader: "" when it returns, the error it raises
\* otherwise
HeaderError(r) ==
    IF r.mtype /= REPLY THEN "no REPLY"
    ELSE IF r.stat = MSG_DENIED
      THEN IF r.sub = RPC_MISMATCH THEN "MSG_DENIED: RPC_MISMATCH"
           ELSE IF r.sub = AUTH_ERROR THEN "MSG_DENIED: AUTH_ERROR"
           ELSE "MSG_DENIED"
    ELSE IF r.stat /= MSG_ACCEPTED THEN "Neither MSG_DENIED nor MSG_ACCEPTED"
    ELSE IF r.sub = PROG_UNAVAIL THEN "call failed: PROG_UNAVAIL"
    ELSE IF r.sub = PROG_MISMATCH THEN "call failed: PROG_MISMATCH"
    ELSE IF r.sub = PROC_UNAVAIL THEN "call failed: PROC_UNAVAIL"
    ELSE IF r.sub = GARBAGE_ARGS THEN "RPCGarbageArgs"
    ELSE IF r.sub /= SUCCESS THEN "call failed"
    ELSE ""

\* a client that takes any reply for the answer
XidMatches_Any(xid, last) == TRUE

\* xid == self.lastxid
XidMatches(xid, last) == xid = last

\* a call that uses the xid of the call before it
NextXid_Same(last) == last

\* Client.start_call: self.lastxid = xid = self.lastxid + 1
NextXid(last) == last + 1

\* a loop that allows one more resend
Exhausted_Late(c) == c < -1

\* RawUDPClient.do_call: if count < 0: raise RPCError('timeout')
Exhausted(c) == c < 0

\* a constructor that takes 0 for a port
NotRegistered_Never(p) == FALSE

\* TCPClient / UDPClient: if port == 0: raise RPCError('program not registered')
NotRegistered(p) == p = 0

RpcReturn(from) ==
    /\ rpc_pc' = "done"
    /\ result' = [op |-> "call", status |-> "ok", exc |-> "", from |-> from]

RpcRaise(text) ==
    /\ rpc_pc' = "done"
    /\ result' = [op |-> "call", status |-> "raised", exc |-> text, from |-> <<>>]

\* RawTCPClient.connect / RawUDPClient.connect / RawBroadcastUDPClient.connect
\* on port q
Connect(t, q) ==
    /\ port' = q
    /\ timeout' = IF t = "bcast" THEN BCAST_TIMEOUT ELSE 0
    /\ \/ /\ connects' = IF t = "bcast" THEN <<>> ELSE <<q>>
          /\ rpc_pc' = "ready"
          /\ result' = [op |-> "init", status |-> "ok", exc |-> "", from |-> <<>>]
       \/ /\ t = "tcp"
          /\ connects' = <<q>>
          /\ rpc_pc' = "new"
          /\ result' = [op |-> "init", status |-> "raised",
                        exc |-> "connection refused", from |-> <<>>]

\* TCPClient(host, prog, vers, port), UDPClient(host, prog, vers, port) and
\* RawBroadcastUDPClient(bcastaddr, prog, vers, port)
NewClient ==
    /\ rpc_pc = "new"
    /\ UNCHANGED dev_all
    /\ lastxid' = 0 /\ xids' = <<>> /\ sends' = 0 /\ waits' = <<>>
    /\ rcvd' = <<>> /\ replies' = <<>> /\ count' = 0
    /\ reply_handler' = FALSE /\ handled' = <<>>
    /\ \E t \in {"tcp", "udp", "bcast"}, p \in Ports :
         /\ t = "bcast" => p /= 0
         /\ transport' = t
         /\ IF p = 0
              THEN \/ \* the port mapper cannot be reached, or get_port raises
                      /\ pmap' \in {"none", "open"}
                      /\ pmap_reply' = None
                      /\ port' = 0 /\ timeout' = 0 /\ connects' = <<>>
                      /\ rpc_pc' = "new"
                      /\ result' = [op |-> "init", status |-> "raised",
                                    exc |-> "port mapper", from |-> <<>>]
                   \/ \E q \in Ports :
                        /\ pmap' = "closed"
                        /\ pmap_reply' = Some(q)
                        /\ IF NotRegistered(q)
                             THEN /\ port' = 0 /\ timeout' = 0 /\ connects' = <<>>
                                  /\ rpc_pc' = "new"
                                  /\ result' = [op |-> "init", status |-> "raised",
                                                exc |-> "program not registered",
                                                from |-> <<>>]
                             ELSE Connect(t, q)
              ELSE /\ pmap' = "none"
                   /\ pmap_reply' = None
                   /\ Connect(t, p)

\* Client.make_call up to the first transmission: start_call, pack_func,
\* and the send of do_call (tcp, udp) or of make_call (bcast)
StartCall ==
    /\ rpc_pc = "ready"
    /\ lastxid < MaxCalls
    /\ UNCHANGED <<dev_all, transport, port, result, pmap, pmap_reply, connects,
                   reply_handler>>
    /\ handled' = <<>>
    /\ lastxid' = NextXid(lastxid)
    /\ xids' = Append(xids, NextXid(lastxid))
    /\ sends' = 1
    /\ waits' = <<>>
    /\ rcvd' = <<>>
    /\ replies' = <<>>
    /\ timeout' = IF transport = "udp" THEN FIRST_TIMEOUT ELSE timeout
    /\ count' = IF transport = "udp" THEN RETRY_COUNT ELSE count
    /\ rpc_pc' = "wait"

\* RawTCPClient.do_call: one turn of the while loop
TcpReceive ==
    /\ rpc_pc = "wait"
    /\ transport = "tcp"
    /\ UNCHANGED <<dev_all, transport, lastxid, port, timeout, count, replies,
                   sends, waits, xids, pmap, pmap_reply, connects, reply_handler,
                   handled>>
    /\ \/ \* recvrecord raises: EOFError, socket.timeout
          /\ rcvd' = rcvd
          /\ RpcRaise("EOFError")
       \/ /\ Len(rcvd) < MaxRcvd
          /\ \E r \in ReplyHeaders(lastxid) :
               /\ rcvd' = Append(rcvd, r)
               /\ IF HeaderError(r) /= ""
                    THEN RpcRaise(HeaderError(r))
                    ELSE IF XidMatches(r.xid, lastxid)
                      THEN RpcReturn(<<r.xid>>)
                    ELSE IF r.xid < lastxid
                      THEN UNCHANGED <<rpc_pc, result>>
                    ELSE RpcRaise("wrong xid in reply")

\* RawUDPClient.do_call: select() returns with nothing to read
UdpTimeout ==
    /\ rpc_pc = "wait"
    /\ transport = "udp"
    /\ UNCHANGED <<dev_all, transport, lastxid, port, replies, rcvd, xids,
                   pmap, pmap_reply, connects, reply_handler, handled>>
    /\ waits' = Append(waits, timeout)
    /\ count' = count - 1
    /\ IF Exhausted(count - 1)
         THEN /\ RpcRaise("timeout")
              /\ UNCHANGED <<timeout, sends>>
         ELSE /\ timeout' = IF timeout < TIMEOUT_LIMIT THEN timeout * 2 ELSE timeout
              /\ sends' = sends + 1
              /\ UNCHANGED <<rpc_pc, result>>

\* RawUDPClient.do_call: a datagram is there
UdpReceive ==
    /\ rpc_pc = "wait"
    /\ transport = "udp"
    /\ Len(rcvd) < MaxRcvd
    /\ UNCHANGED <<dev_all, transport, lastxid, port, timeout, count, replies,
                   sends, waits, xids, pmap, pmap_reply, connects, reply_handler,
                   handled>>
    /\ \E r \in ReplyHeaders(lastxid) :
         /\ rcvd' = Append(rcvd, r)
         /\ IF HeaderError(r) /= ""
              THEN RpcRaise(HeaderError(r))
              ELSE IF ~XidMatches(r.xid, lastxid)
                THEN UNCHANGED <<rpc_pc, result>>
                ELSE RpcReturn(<<r.xid>>)

\* the hosts that answer a broadcast
Senders == {1, 2}

\* unpack_func(): the result decoded from the reply of host a
Decoded(a) == 1024 + a

\* if self.reply_handler: self.reply_handler(reply, fromaddr)
Handle(h, seq, reply, fromaddr) ==
    IF h THEN Append(seq, <<reply, fromaddr>>) ELSE seq

\* RawBroadcastUDPClient.set_reply_handler
SetReplyHandler ==
    /\ rpc_pc = "ready"
    /\ transport = "bcast"
    /\ UNCHANGED <<dev_all, transport, rpc_pc, lastxid, port, timeout, count, replies,
                   result, sends, waits, rcvd, xids, pmap, pmap_reply, connects,
                   handled>>
    /\ reply_handler' = ~reply_handler

\* RawBroadcastUDPClient.make_call: a datagram is there
BcastReceive ==
    /\ rpc_pc = "wait"
    /\ transport = "bcast"
    /\ Len(rcvd) < MaxRcvd
    /\ UNCHANGED <<dev_all, transport, lastxid, port, timeout, count,
                   sends, waits, xids, pmap, pmap_reply, connects, reply_handler>>
    /\ \E r \in ReplyHeaders(lastxid), a \in Senders :
         /\ rcvd' = Append(rcvd, [xid |-> r.xid, mtype |-> r.mtype, stat |-> r.stat,
                                  sub |-> r.sub, from |-> a])
         /\ IF HeaderError(r) /= ""
              THEN RpcRaise(HeaderError(r)) /\ UNCHANGED <<replies, handled>>
              ELSE IF ~XidMatches(r.xid, lastxid)
                THEN UNCHANGED <<rpc_pc, result, replies, handled>>
                ELSE /\ replies' = Append(replies, [reply |-> Decoded(a),
                                                    fromaddr |-> a, xid |-> r.xid])
                     /\ handled' = Handle(reply_handler, handled, Decoded(a), a)
                     /\ UNCHANGED <<rpc_pc, result>>

\* RawBroadcastUDPClient.make_call: nothing within self.timeout, the
\* replies collected so far are returned
BcastTimeout ==
    /\ rpc_pc = "wait"
    /\ transport = "bcast"
    /\ UNCHANGED <<dev_all, transport, lastxid, port, timeout, count, replies,
                   sends, rcvd, xids, pmap, pmap_reply, connects, reply_handler,
                   handled>>
    /\ waits' = Append(waits, timeout)
    /\ RpcReturn([i \in 1 .. Len(replies) |-> replies[i].xid])

\* the caller of make_call has its result or its exception
RpcResume ==
    /\ rpc_pc = "done"
    /\ UNCHANGED <<dev_all, transport, lastxid, port, result, xids, pmap, pmap_reply,
                   connects, reply_handler>>
    /\ handled' = <<>>
    /\ rpc_pc' = "ready"
    /\ timeout' = IF transport = "bcast" THEN timeout ELSE 0
    /\ count' = 0
    /\ replies' = <<>>
    /\ sends' = 0
    /\ waits' = <<>>
    /\ rcvd' = <<>>

\* close(): the socket is closed and the client is dropped
CloseClient ==
    /\ rpc_pc = "ready"
    /\ UNCHANGED dev_all
    /\ transport' = "none" /\ rpc_pc' = "new" /\ lastxid' = 0 /\ port' = 0
    /\ timeout' = 0 /\ count' = 0 /\ replies' = <<>> /\ result' = NoOutcome
    /\ sends' = 0 /\ waits' = <<>> /\ rcvd' = <<>> /\ xids' = <<>>
    /\ pmap' = "none" /\ pmap_reply' = None /\ connects' = <<>>
    /\ reply_handler' = FALSE /\ handled' = <<>>

----------------------------------------------------------------------------
(* Threads that share one TCPClient and call it under one mutex of their
   own: make_call as each thread runs it. *)

NumThreads == 2
Threads == 1 .. NumThreads

\* what the server answers to the call x
ServerReplies(x) ==
    [xid : {x}, mtype : {REPLY}, stat : {MSG_ACCEPTED}, sub : {SUCCESS, PROG_UNAVAIL}]

\* the callers' mutex is taken before make_call
Acquire(t) ==
    /\ transport = "tcp"
    /\ rpc_pc = "ready"
    /\ tpc[t] = "idle"
    /\ mutex = 0
    /\ lastxid < MaxCalls
    /\ mutex' = t
    /\ tpc' = [tpc EXCEPT ![t] = "locked"]
    /\ UNCHANGED <<config, device, conns, created, pc, op, req, resp, honest, log, arg,
                   delivered, done, locals, scan, bus, abort_ch, pure, rpc,
                   txid, tres, wire, unanswered>>

\* Client.make_call up to the send of RawTCPClient.do_call
ThreadStart(t) ==
    /\ tpc[t] = "locked"
    /\ lastxid' = NextXid(lastxid)
    /\ xids' = Append(xids, NextXid(lastxid))
    /\ txid' = [txid EXCEPT ![t] = NextXid(lastxid)]
    /\ tres' = [tres EXCEPT ![t] = NoOutcome]
    /\ unanswered' = Append(unanswered, NextXid(lastxid))
    /\ tpc' = [tpc EXCEPT ![t] = "wait"]
    /\ UNCHANGED <<config, device, conns, created, pc, op, req, resp, honest, log, arg,
                   delivered, done, locals, scan, bus, abort_ch, pure,
                   transport, rpc_pc, port, timeout, count, replies, result, sends,
                   waits, rcvd, pmap, pmap_reply, connects, reply_handler, handled,
                   mutex, wire>>

\* the server answers the oldest call it has
ServerReply ==
    /\ unanswered /= <<>>
    /\ \E r \in ServerReplies(Head(unanswered)) : wire' = Append(wire, r)
    /\ unanswered' = Tail(unanswered)
    /\ UNCHANGED <<config, device, conns, created, pc, op, req, resp, honest, log, arg,
                   delivered, done, locals, scan, bus, abort_ch, pure, rpc,
                   mutex, tpc, txid, tres>>

\* RawTCPClient.do_call: one turn of the while loop, in thread t
ThreadReceive(t) ==
    /\ tpc[t] = "wait"
    /\ UNCHANGED <<config, device, conns, created, pc, op, req, resp, honest, log, arg,
                   delivered, done, locals, scan, bus, abort_ch, pure, rpc,
                   mutex, txid, unanswered>>
    /\ IF wire = <<>>
         THEN \* recvrecord raises socket.timeout
              /\ wire' = wire
              /\ tpc' = [tpc EXCEPT ![t] = "got"]
              /\ tres' = [tres EXCEPT ![t] = [op |-> "call", status |-> "raised",
                                             exc |-> "timeout", from |-> <<>>]]
         ELSE LET r == Head(wire) IN
              /\ wire' = Tail(wire)
              /\ IF HeaderError(r) /= ""
                   THEN /\ tpc' = [tpc EXCEPT ![t] = "got"]
                        /\ tres' = [tres EXCEPT ![t] =
                                      [op |-> "call", status |-> "raised",
                                       exc |-> HeaderError(r), from |-> <<>>]]
                   ELSE IF XidMatches(r.xid, lastxid)
                     THEN /\ tpc' = [tpc EXCEPT ![t] = "got"]
                          /\ tres' = [tres EXCEPT ![t] =
                                        [op |-> "call", status |-> "ok", exc |-> "",
                                         from |-> <<r.xid>>]]
                   ELSE IF r.xid < lastxid
                     THEN UNCHANGED <<tpc, tres>>
                   ELSE /\ tpc' = [tpc EXCEPT ![t] = "got"]
                        /\ tres' = [tres EXCEPT ![t] =
                                      [op |-> "call", status |-> "raised",
                                       exc |-> "wrong xid in reply", from |-> <<>>]]

\* make_call has returned or raised; the mutex is given back
Release(t) ==
    /\ tpc[t] = "got"
    /\ mutex' = 0
    /\ tpc' = [tpc EXCEPT ![t] = "idle"]
    /\ UNCHANGED <<config, device, conns, created, pc, op, req, resp, honest, log, arg,
                   delivered, done, locals, scan, bus, abort_ch, pure, rpc,
                   txid, tres, wire, unanswered>>

----------------------------------------------------------------------------
(* parse_visa_resource_string.  A string is a sequence of symbols: the
   keyword in upper and in lower case ("TCPIP", "tcpip", "INSTR", "instr"),
   a digit "0", a colon ":", the brackets, a blank " ", a newline "nl" and
   any other character "h". *)

\* the parts a resource string is put together from
Prefixes == { <<"TCPIP">>, <<"tcpip">>, <<"TCPIP", "0">>, <<"TCPIP", "0", "0">>,
              <<"h">>, <<" ", "TCPIP">> }
Separators == { <<":", ":">>, <<":">> }
Hosts == { <<"h">>, <<"h", "0">>, <<"INSTR">>, <<"h", " ">>, <<>> }
SubAddresses == { <<"h">>, <<"h", "[", "h", "]">>,
                  <<"h", "[", "h", ":", ":", "0", ":", ":", "h", "]">>,
                  <<"h", "[", "nl", "]">>, <<"h", "[", ":", ":", "h">>,
                  <<"h", ":", "h">>, <<>> }
Suffixes == { <<"INSTR">>, <<"instr">>, <<"INSTR", "nl">>, <<"INSTR", "nl", "nl">>,
              <<"h">>, <<"INSTR", "h">> }

\* the resource strings: sub is None when the string has no sub-address
ResourceParts ==
    [prefix : Prefixes, sep : Separators, host : Hosts,
     sub : {None} \cup {Some(a) : a \in SubAddresses}, suffix : Suffixes]

ResourceString(r) ==
    r.prefix \o r.sep \o r.host
    \o (IF r.sub = None THEN <<>> ELSE r.sep \o r.sub[1])
    \o r.sep \o r.suffix

\* \d, [^\s:] and .
IsDigit(c) == c = "0"
InClass(c) == c \notin {":", " ", "nl"}
IsDot(c) == c /= "nl"

\* re.I: TCPIP and INSTR match in either case
IsKeyword(c, k) ==
    \/ c = k
    \/ k = "TCPIP" /\ c = "tcpip"
    \/ k = "INSTR" /\ c = "instr"

\* \d*: length of the longest run of digits that starts at s[i]
RECURSIVE DigitRun(_, _)
DigitRun(s, i) ==
    IF i > Len(s) \/ ~IsDigit(s[i]) THEN 0 ELSE 1 + DigitRun(s, i + 1)

\* [^\s:]+: length of the longest run of its symbols that starts at s[i]
RECURSIVE ClassRun(_, _)
ClassRun(s, i) ==
    IF i > Len(s) \/ ~InClass(s[i]) THEN 0 ELSE 1 + ClassRun(s, i + 1)

\* [^\s:]+(\[.+\])? matches the whole of a
SubMatch(a) ==
    \E k \in 1 .. Len(a) :
        /\ \A i \in 1 .. k : InClass(a[i])
        /\ \/ k = Len(a)
           \/ /\ Len(a) >= k + 3
              /\ a[k + 1] = "["
              /\ a[Len(a)] = "]"
              /\ \A i \in k + 2 .. Len(a) - 1 : IsDot(a[i])

\* s without the one newline that $ allows at its end
BeforeDollar(s) ==
    IF s /= <<>> /\ s[Len(s)] = "nl" THEN SubSeq(s, 1, Len(s) - 1) ELSE s

\* parse_visa_resource_string: None when re.match finds nothing, Some(the
\* dict) otherwise; arg2 is None when the group took no part in the match
ParseVisa(s) ==
    LET d == DigitRun(s, 2)
        p1 == 2 + d
        a1 == ClassRun(s, p1 + 2)
        p2 == p1 + 2 + a1
        core == BeforeDollar(SubSeq(s, p2, Len(s)))
        n == Len(core)
        arg2 == SubSeq(core, 3, n - 3)
    IN  IF /\ Len(s) >= 1 /\ IsKeyword(s[1], "TCPIP")
           /\ Len(s) >= p1 + 1 /\ s[p1] = ":" /\ s[p1 + 1] = ":"
           /\ a1 >= 1
           /\ n >= 3 /\ core[n - 2] = ":" /\ core[n - 1] = ":"
           /\ IsKeyword(core[n], "INSTR")
           /\ \/ n = 3
              \/ /\ n >= 6 /\ core[1] = ":" /\ core[2] = ":"
                 /\ SubMatch(arg2)
          THEN Some([type |-> "TCPIP",
                     prefix |-> SubSeq(s, 1, 1 + d),
                     arg1 |-> SubSeq(s, p1 + 2, p1 + 1 + a1),
                     arg2 |-> IF n = 3 THEN None ELSE arg2,
                     suffix |-> <<core[n]>>])
          ELSE None

\* a resource string is parsed
Parse ==
    /\ output = None
    /\ input \in ResourceParts
    /\ output' = Some(ParseVisa(ResourceString(input)))
    /\ UNCHANGED <<config, device, conns, created, pc, op, req, resp, honest, log, arg,
                   delivered, done, locals, scan, bus, abort_ch, thr, rpc, input>>

----------------------------------------------------------------------------
(* Record marking: sendfrag, sendrecord, recvfrag and recvrecord.  input is
   what the peer sends, output the reader: its position in recvrecord, the
   bytes that have arrived and those it has read, and its locals. *)

MaxFrags == 2

\* 0x80000000 is bit 7 of the first of the 4 bytes of a header, and
\* 0x7fffffff the rest of them
LAST_FRAGMENT == 128

\* struct.pack(">I", x) for x = n, or x = n | 0x80000000 when last, n being
\* a length below 2^31
PackI(last, n) ==
    << (n \div 16777216) + (IF last THEN LAST_FRAGMENT ELSE 0),
       (n \div 65536) % 256, (n \div 256) % 256, n % 256 >>

\* struct.unpack(">I", header[0:4])[0], as (x & 0x80000000) != 0 and
\* x & 0x7fffffff
UnpackLast(b) == b[1] >= LAST_FRAGMENT
UnpackLen(b) == (b[1] % LAST_FRAGMENT) * 16777216 + b[2] * 65536 + b[3] * 256 + b[4]

\* sendfrag(sock, last, frag): the bytes given to sendall
sendfrag(last, frag) == PackI(last, Len(frag)) \o frag

\* sendrecord(sock, record)
sendrecord(record) == IF Len(record) > 0 THEN sendfrag(TRUE, record) ELSE <<>>

\* the bytes of the fragments fs, the last-fragment flag on the last only
RECURSIVE SendFrags(_)
SendFrags(fs) ==
    IF Len(fs) = 1 THEN sendfrag(TRUE, fs[1])
    ELSE sendfrag(FALSE, Head(fs)) \o SendFrags(Tail(fs))

FragPayloads == { <<>>, <<1>>, <<1, 2>> }

\* what follows the record on the connection: nothing, or the start of the
\* next record
Trailing == { <<>>, sendfrag(TRUE, <<3>>) }

RECURSIVE FragLists(_)
FragLists(n) ==
    IF n = 0 THEN { <<>> }
    ELSE { Append(fs, f) : fs \in FragLists(n - 1), f \in FragPayloads }

\* a record in fragments, as a peer may send it, or a record given to
\* sendrecord
RecordInputs ==
    [frags : UNION { FragLists(n) : n \in 1 .. MaxFrags }, by : {"sendfrag"},
     trailing : Trailing]
    \cup [frags : FragLists(1) \ { << <<>> >> }, by : {"sendrecord"}, trailing : Trailing]

SockBytes(inp) ==
    (IF inp.by = "sendrecord" THEN sendrecord(inp.frags[1]) ELSE SendFrags(inp.frags))
    \o inp.trailing

\* the reader of the connection: call counts the calls made on it, start is
\* the offset at which the recvrecord in hand began to read and hdr the
\* offset of the 4 bytes it decoded last as a fragment header
Reader == [pc |-> "header", arrived |-> 0, pos |-> 0, last |-> FALSE, n |-> 0,
           frag |-> <<>>, record |-> <<>>, call |-> 1, start |-> 0, hdr |-> 0]

RecordVars == <<config, device, conns, created, pc, op, req, resp, honest, log, arg,
                delivered, done, locals, scan, bus, abort_ch, thr, rpc, input>>

\* more bytes of the peer reach the socket
Arrive ==
    /\ output /= None
    /\ output.arrived < Len(SockBytes(input))
    /\ \E a \in output.arrived + 1 .. Len(SockBytes(input)) :
         output' = [output EXCEPT !.arrived = a]
    /\ UNCHANGED RecordVars

\* recvfrag: if len(header) < 4: raise EOFError
ShortHeader(k) == k < 4

\* the fragment is complete: record = record + frag, and the test of
\* while not last
EndOfFrag(o) ==
    [o EXCEPT !.record = o.record \o o.frag,
              !.pc = IF o.last THEN "returned" ELSE "header"]

\* recvfrag: header = sock.recv(4), which returns the bytes that are
\* there, 4 at most, and the decoding of the header
RecvHeader ==
    /\ output /= None
    /\ output.pc = "header"
    /\ output.arrived > output.pos
    /\ UNCHANGED RecordVars
    /\ LET k == Min(4, output.arrived - output.pos)
           header == SubSeq(SockBytes(input), output.pos + 1, output.pos + 4)
           o == [output EXCEPT !.pos = output.pos + k,
                               !.hdr = output.pos,
                               !.last = UnpackLast(header),
                               !.n = UnpackLen(header),
                               !.frag = <<>>]
       IN  IF ShortHeader(k)
             THEN output' = [output EXCEPT !.pos = output.pos + k, !.pc = "raised"]
             ELSE IF o.n > 0
               THEN output' = [o EXCEPT !.pc = "body"]
               ELSE output' = EndOfFrag(o)

\* recvfrag: one turn of while n > 0, buf = sock.recv(n)
RecvBody ==
    /\ output /= None
    /\ output.pc = "body"
    /\ output.arrived > output.pos
    /\ UNCHANGED RecordVars
    /\ LET k == Min(output.n, output.arrived - output.pos)
           o == [output EXCEPT !.pos = output.pos + k,
                               !.n = output.n - k,
                               !.frag = output.frag
                                        \o SubSeq(SockBytes(input), output.pos + 1,
                                                  output.pos + k)]
       IN  output' = IF o.n > 0 THEN o ELSE EndOfFrag(o)

\* calls that one connection sees abandoned by a receive timeout
MaxAbandoned == 1

\* sock.recv raises socket.timeout (the deadline set by settimeout passed
\* with nothing to read): recvfrag, recvrecord and do_call are left at once,
\* the bytes read so far are dropped and the socket stays open
RecvTimeout ==
    /\ output /= None
    /\ output.pc \in {"header", "body"}
    /\ output.arrived = output.pos
    /\ output' = [output EXCEPT !.pc = "timeout"]
    /\ UNCHANGED RecordVars

\* a new recvrecord on the same socket: record = b'', last = 0, and the
\* first recvfrag reads at the place the stream has reached
NewRecord(o) ==
    [o EXCEPT !.pc = "header", !.record = <<>>, !.frag = <<>>, !.last = FALSE,
              !.n = 0, !.start = o.pos]

\* the next call on the connection, after the one that timed out: do_call
\* sends its record and calls recvrecord
NextCall ==
    /\ output /= None
    /\ output.pc = "timeout"
    /\ output.call <= MaxAbandoned
    /\ output' = [NewRecord(output) EXCEPT !.call = output.call + 1]
    /\ UNCHANGED RecordVars

\* RawTCPClient.do_call, lines 274-279: the record is the whole reply to the
\* call that was abandoned (its xid is below lastxid): discard it and fetch
\* another record
Discard ==
    /\ output /= None
    /\ output.pc = "returned"
    /\ output.call > 1
    /\ output.start = 0
    /\ output' = NewRecord(output)
    /\ UNCHANGED RecordVars

----------------------------------------------------------------------------
(* The specification *)

\* Device.__init__ and InterfaceDevice.__init__
Constructed ==
    /\ kind \in {"Instrument", "InterfaceDevice"}
    /\ name \in Names
    /\ (kind = "Instrument") = (name = <<"i", "n", "s", "t", "0">>)
    /\ term_char \in {None, Some(TermByte)}
    /\ py \in (IF term_char = None THEN {3} ELSE {2, 3})
    /\ link = None
    /\ client = None
    /\ abort_port = 0
    /\ max_recv_size = 0
    /\ locked = FALSE
    /\ bus_address = 0
    /\ conns = 0
    /\ created = None
    /\ pc = "idle"
    /\ op = "none"
    /\ req = NoReq
    /\ resp = NoResp
    /\ honest = TRUE
    /\ log = <<>>
    /\ arg = <<>>
    /\ delivered = 0
    /\ done = NoResult
    /\ data = <<>> /\ offset = 0 /\ num = 0 /\ flags = 0
    /\ read_len = 0 /\ reason = 0 /\ tchar = 0 /\ read_data = <<>>
    /\ address_list = None /\ found = <<>> /\ addr_i = 0 /\ sa = 0
    /\ probe = 0 /\ pending = NoException
    /\ ndac = FALSE
    /\ transport = "none" /\ rpc_pc = "new" /\ lastxid = 0 /\ port = 0
    /\ timeout = 0 /\ count = 0 /\ replies = <<>> /\ result = NoOutcome
    /\ sends = 0 /\ waits = <<>> /\ rcvd = <<>> /\ xids = <<>>
    /\ pmap = "none" /\ pmap_reply = None /\ connects = <<>>
    /\ reply_handler = FALSE /\ handled = <<>>
    /\ abort_client = None /\ abort_req = None
    /\ mutex = 0 /\ tpc = [t \in Threads |-> "idle"] /\ txid = [t \in Threads |-> 0]
    /\ tres = [t \in Threads |-> NoOutcome] /\ wire = <<>> /\ unanswered = <<>>

\* an instrument, or an interface with nothing on its bus
Init ==
    /\ Constructed
    /\ listeners = {}
    /\ input = None /\ output = None

\* the caller has the result (or the exception) and the frame of the
\* operation is gone
Resume ==
    /\ pc = "done"
    /\ UNCHANGED <<rpc, abort_ch, thr, pure>>
    /\ pc' = "idle"
    /\ op' = "none"
    /\ req' = NoReq
    /\ resp' = NoResp
    /\ honest' = TRUE
    /\ log' = <<>>
    /\ arg' = <<>>
    /\ delivered' = 0
    /\ done' = NoResult
    /\ data' = <<>> /\ offset' = 0 /\ num' = 0 /\ flags' = 0
    /\ read_len' = 0 /\ reason' = 0 /\ tchar' = 0 /\ read_data' = <<>>
    /\ address_list' = None /\ found' = <<>> /\ addr_i' = 0 /\ sa' = 0
    /\ probe' = 0 /\ pending' = NoException
    /\ UNCHANGED <<config, device, conns, created, bus>>

Call == \E o \in BaseOps \cup InstrumentOps \cup InterfaceOps : Invoke(o)

Next ==
    \/ Call
    \/ OpenStep
    \/ BusAddrStep
    \/ CloseStep
    \/ SimpleStep
    \/ WriteStep
    \/ ReadStep
    \/ Resume

Spec == Init /\ [][Next]_vars

\* an interface device on one of the buses, used to look for listeners
ScanInit ==
    /\ Constructed
    /\ kind = "InterfaceDevice"
    /\ term_char = None
    /\ listeners \in Buses
    /\ input = None /\ output = None

ScanCall == \E o \in ScanOps \cup {"lock", "close"} : Invoke(o)

ScanNext ==
    \/ ScanCall
    \/ OpenStep
    \/ BusAddrStep
    \/ CloseStep
    \/ SimpleStep
    \/ ScanLock
    \/ ScanCommand
    \/ ScanAtn
    \/ ScanNdac
    \/ ScanUnlock
    \/ ScanExcept
    \/ Resume

ScanSpec == ScanInit /\ [][ScanNext]_vars

\* an instrument that is opened, closed and aborted
AbortInit ==
    /\ Constructed
    /\ kind = "Instrument"
    /\ term_char = None
    /\ listeners = {}
    /\ input = None /\ output = None

AbortCall == \E o \in AbortOps \cup {"open", "close"} : Invoke(o)

AbortNext ==
    \/ AbortCall
    \/ OpenStep
    \/ CloseStep
    \/ AbortStep
    \/ Resume

AbortSpec == AbortInit /\ [][AbortNext]_vars

\* an interface whose bus address is set, and whose setups are built
AddrCall == \E o \in BusAddrOps \cup SetupOps \cup {"close"} : Invoke(o)

AddrNext ==
    \/ AddrCall
    \/ OpenStep
    \/ BusAddrStep
    \/ CloseStep
    \/ AddrStep
    \/ Resume

AddrSpec == ScanInit /\ [][AddrNext]_vars

\* the resource strings to parse
ParseInit ==
    /\ Constructed
    /\ kind = "Instrument"
    /\ term_char = None
    /\ listeners = {}
    /\ input \in ResourceParts
    /\ output = None

ParseNext == Parse

ParseSpec == ParseInit /\ [][ParseNext]_vars

\* a reader in recvrecord on a connection on which a record is sent
RecordInit ==
    /\ Constructed
    /\ kind = "Instrument"
    /\ term_char = None
    /\ listeners = {}
    /\ input \in RecordInputs
    /\ output = Reader

RecordNext ==
    \/ Arrive
    \/ RecvHeader
    \/ RecvBody

RecordSpec == RecordInit /\ [][RecordNext]_vars

\* a connection on which the reply to a first call and then the reply to a
\* second one are sent, the first call being liable to time out
StreamInit ==
    /\ RecordInit
    /\ input.trailing /= <<>>

StreamNext ==
    \/ Arrive
    \/ RecvHeader
    \/ RecvBody
    \/ RecvTimeout
    \/ NextCall
    \/ Discard

StreamSpec == StreamInit /\ [][StreamNext]_vars

\* threads that make calls on one TCPClient
ThreadNext ==
    \/ NewClient
    \/ \E t \in Threads : Acquire(t)
    \/ \E t \in Threads : ThreadStart(t)
    \/ ServerReply
    \/ \E t \in Threads : ThreadReceive(t)
    \/ \E t \in Threads : Release(t)

\* no Device: a client of rpc.py used on its own
RpcInit ==
    /\ Constructed
    /\ kind = "Instrument"
    /\ term_char = None
    /\ listeners = {}
    /\ input = None /\ output = None

RpcNext ==
    \/ NewClient
    \/ StartCall
    \/ TcpReceive
    \/ UdpTimeout
    \/ UdpReceive
    \/ SetReplyHandler
    \/ BcastReceive
    \/ BcastTimeout
    \/ RpcResume
    \/ CloseClient

RpcSpec == RpcInit /\ [][RpcNext]_vars

ThreadSpec == RpcInit /\ [][ThreadNext]_vars

----------------------------------------------------------------------------
(* Properties of the link protocol *)

DeviceProcs == {"device_write", "device_read", "device_trigger", "device_clear",
                "device_lock", "device_unlock", "device_read_stb", "device_remote",
                "device_local", "device_docmd", "destroy_link"}

BodyPcs == {"busaddr", "close", "call", "write", "read"}

Count(p) == Cardinality({i \in 1 .. Len(log) : log[i] = p})

\* C1: every device-operation request on the core connection carries the
\* handle returned by the most recent successful create_link, and none is
\* sent while the Device is Closed: the code that sends one is reached only
\* with the link open, an operation called on a Closed Device having gone
\* through open() first.
C1_LinkCarried ==
    /\ req.proc \in DeviceProcs => (req.link /= None /\ req.link = created)
    /\ pc \in BodyPcs => (link /= None /\ link = created)

\* an operation called on a Closed Device, on which an earlier link had been
\* created and destroyed, has opened a new link and sent its request with
\* the new handle
C1_Witness ==
    /\ pc = "done"
    /\ done.op = "trigger"
    /\ log = <<"create_link", "device_trigger">>
    /\ req.link = Some(7)
    /\ abort_port = 2

\* C2: when create_link answers a non-zero error code, in an explicit open()
\* or in the open() another operation starts with, Vxi11Exception(code,
\* 'open') is raised, the link stays unset, abort_port and max_recv_size
\* keep their values, and create_link is the only request of the operation.
C2_OpenFails ==
    [][ (pc = "open" /\ req'.proc = "create_link"
         /\ resp'.kind = "reply" /\ resp'.error /= 0)
        => /\ pc' = "done"
           /\ done'.status = "raised"
           /\ done'.exc = Vxi11Exception(<<"int", resp'.error>>, Some("open"))
           /\ link = None /\ link' = None
           /\ abort_port' = abort_port
           /\ max_recv_size' = max_recv_size
           /\ log' = <<"create_link">> ]_vars

\* a trigger() on a Device closed after an earlier link: its open() fails
\* with code 4 and the values recorded by the earlier link are still there
C2_Witness ==
    /\ pc = "done"
    /\ done.op = "trigger"
    /\ done.status = "raised"
    /\ done.exc.msg = <<4, "Invalid link identifier", "open">>
    /\ resp.error = 4
    /\ link = None
    /\ abort_port = 2
    /\ max_recv_size = 2

\* C3: close() on an Open Device issues destroy_link with the current handle
\* and, whatever the outcome of that call, closes the transport connection
\* and leaves the Device Closed.
C3_CloseAlwaysTearsDown ==
    req.proc = "destroy_link"
        => /\ req.link = created
           /\ pc = "done"
           /\ link = None
           /\ client = None
           /\ conns = 0

\* C4: open() on a Device that is already Open sends nothing and leaves the
\* link handle, abort_port, max_recv_size and locked as they were.
C4_OpenIsNoOp ==
    [][ (pc = "idle" /\ op' = "open" /\ link /= None)
        => /\ pc' = "done"
           /\ done'.status = "ok"
           /\ req' = NoReq
           /\ log' = <<>>
           /\ UNCHANGED <<link, client, abort_port, max_recv_size, locked, bus_address, conns>> ]_vars

\* open() has returned on a locked, Open Device without sending anything
C4_Witness ==
    /\ pc = "done"
    /\ done.op = "open"
    /\ done.status = "ok"
    /\ log = <<>>
    /\ link /= None
    /\ locked

\* C5: locked becomes true only when device_lock answers error 0 and false
\* only when device_unlock answers error 0; on a non-zero error the flag
\* keeps its value and Vxi11Exception(code, operation) is raised.
C5_LockedOnlyOnSuccess ==
    [][ /\ (pc = "call" /\ op \in {"lock", "unlock"} /\ resp'.kind = "reply")
           => IF resp'.error = 0
                THEN locked' = (op = "lock") /\ done'.status = "ok"
                ELSE /\ locked' = locked
                     /\ done'.status = "raised"
                     /\ done'.exc = Vxi11Exception(<<"int", resp'.error>>, Some(op))
        /\ (locked' /= locked)
           => /\ pc = "call"
              /\ op = (IF locked' THEN "lock" ELSE "unlock")
              /\ resp'.kind = "reply"
              /\ resp'.error = 0 ]_vars

\* an unlock() answered with error 4 has left the flag true
C5_Witness ==
    /\ pc = "done"
    /\ done.op = "unlock"
    /\ done.status = "raised"
    /\ resp.error = 4
    /\ locked

\* number of blocks a payload of n bytes splits into, m bytes at a time
CeilDiv(n, m) == (n + m - 1) \div m

HasEnd(f) == (f \div OP_FLAG_END) % 2 = 1

\* C6 as stated: a payload of n >= 1 bytes, a receive size m >= 1 and a
\* device that accepts every block in full give exactly ceil(n/m)
\* device_write requests, END set on the last and on no earlier one.
C6_BlocksOfPayload ==
    /\ (pc = "done" /\ done.op = "write_raw" /\ done.status = "ok" /\ honest
        /\ Len(arg) >= 1 /\ max_recv_size >= 1)
       => (Count("device_write") = CeilDiv(Len(arg), max_recv_size) /\ HasEnd(req.flags))
    /\ (pc = "write" /\ req.proc = "device_write" /\ honest) => ~HasEnd(req.flags)

\* C6 (amended): the same when no terminator is configured; a configured
\* terminator is one more byte to send.
C6_BlocksNoTerminator ==
    /\ (pc = "done" /\ done.op = "write_raw" /\ done.status = "ok" /\ honest
        /\ term_char = None /\ Len(arg) >= 1 /\ max_recv_size >= 1)
       => (Count("device_write") = CeilDiv(Len(arg), max_recv_size) /\ HasEnd(req.flags))
    /\ (pc = "write" /\ req.proc = "device_write" /\ honest) => ~HasEnd(req.flags)

\* 5 bytes written 2 at a time: 3 blocks, the last one with END
C6_Witness ==
    /\ pc = "done"
    /\ done.op = "write_raw"
    /\ done.status = "ok"
    /\ honest
    /\ term_char = None
    /\ Len(arg) = 5
    /\ max_recv_size = 2
    /\ Count("device_write") = 3
    /\ req.data = <<5>>
    /\ HasEnd(req.flags)

NotComplete == Vxi11Exception(<<"str", "did not write complete block">>, Some("write"))

\* C7 as stated: a device_write reply that reports fewer bytes than the
\* block offered makes the write fail with 'did not write complete block',
\* and no further block is sent.
C7_ShortWriteFails ==
    (req.proc = "device_write" /\ resp.kind = "reply" /\ resp.size < Len(req.data))
        => (pc = "done" /\ done.status = "raised" /\ done.exc = NotComplete)

\* C7 (amended): such a reply ends the write with no further block; the
\* error is 'did not write complete block' when the reply's error code is 0
\* and the device error of the reply otherwise.
C7_ShortWriteEnds ==
    (req.proc = "device_write" /\ resp.kind = "reply" /\ resp.size < Len(req.data))
        => /\ pc = "done"
           /\ done.status = "raised"
           /\ done.exc = IF resp.error = 0
                           THEN NotComplete
                           ELSE Vxi11Exception(<<"int", resp.error>>, Some("write"))

\* the first of three blocks was accepted one byte short, with error 0
C7_Witness ==
    /\ pc = "done"
    /\ done.exc = NotComplete
    /\ resp.error = 0
    /\ resp.size = 1
    /\ Len(req.data) = 2
    /\ Count("device_write") = 1
    /\ Len(data) = 5

\* C8: no block offered by device_write and no size requested by
\* device_read is larger than max_recv_size.
C8_WithinRecvSize ==
    /\ req.proc = "device_write" => Len(req.data) <= max_recv_size
    /\ req.proc = "device_read" => req.size <= max_recv_size

\* a block of max_recv_size bytes cut from a longer payload
C8_Witness ==
    /\ req.proc = "device_write"
    /\ max_recv_size = 2
    /\ Len(data) = 5
    /\ Len(req.data) = 2
    /\ offset = 2

\* C9: after a reply without device error the read goes on to another
\* device_read exactly when the reply's reason has neither RX_END nor RX_CHR
\* and, for a positive byte count, fewer bytes than that have arrived;
\* otherwise it returns what the device has handed out so far.
C9_ReadLoop ==
    [][ (pc = "read" /\ resp'.kind = "reply" /\ resp'.error = 0)
        => LET more == /\ AndEndChr(resp'.reason) = 0
                       /\ ~(arg[1] > 0 /\ delivered' >= arg[1])
           IN  /\ (pc' = "read") = more
               /\ ~more => /\ pc' = "done"
                           /\ done'.status = "ok"
                           /\ done'.value = Payload(delivered') ]_vars

\* with a terminator configured: a first reply with only RX_REQCNT, then a
\* reply that carries RX_CHR ends the read
C9_Witness ==
    /\ pc = "done"
    /\ done.op = "read_raw"
    /\ done.status = "ok"
    /\ term_char /= None
    /\ req.term = TermByte
    /\ Count("device_read") = 2
    /\ resp.reason = RX_CHR
    /\ done.value = <<1, 2, 3>>

\* C10: with a positive byte count every device_read asks for the smaller
\* of max_recv_size and the bytes still wanted, and with a device that never
\* returns more than asked the result is no longer than the count.
C10_RequestSize ==
    /\ [][ (pc = "read" /\ req'.proc = "device_read" /\ arg[1] > 0)
           => req'.size = Min(max_recv_size, arg[1] - delivered) ]_vars
    /\ [] ((pc = "done" /\ done.op = "read_raw" /\ done.status = "ok"
            /\ arg[1] > 0 /\ honest) => Len(done.value) <= arg[1])

\* 3 bytes read 2 at a time: the second request asks for 1
C10_Witness ==
    /\ pc = "done"
    /\ done.op = "read_raw"
    /\ done.status = "ok"
    /\ arg = <<3>>
    /\ max_recv_size = 2
    /\ Count("device_read") = 2
    /\ req.size = 1
    /\ honest
    /\ Len(done.value) = 3

\* C11: with a single-byte terminator configured, a write that neither the
\* link nor the device makes fail (no transport failure, no device error,
\* every block accepted in full) has offered the device, block after block,
\* the payload followed by the terminator byte.
C11_TerminatorOffered ==
    (pc = "done" /\ done.op = "write_raw" /\ term_char /= None /\ honest
     /\ done.exc.type \notin {"Vxi11Exception", "RPCError", "struct.error"})
        => /\ done.status = "ok"
           /\ data = arg \o term_char
           /\ offset = Len(data)
           /\ req.proc = "device_write"

\* the name each step gives to the Vxi11Exception it raises
StepName(r) ==
    CASE r.proc = "create_link" -> "open"
      [] r.proc = "device_write" -> "write"
      [] r.proc = "device_read" -> "read"
      [] r.proc = "device_docmd" /\ r.size = 2 -> "bus_status"
      [] r.proc = "device_docmd" /\ r.size /= 2 -> "send_command"
      [] r.proc = "device_trigger" -> "trigger"
      [] r.proc = "device_clear" -> "clear"
      [] r.proc = "device_lock" -> "lock"
      [] r.proc = "device_unlock" -> "unlock"
      [] r.proc = "device_read_stb" -> "read_stb"
      [] r.proc = "device_remote" -> "remote"
      [] r.proc = "device_local" -> "local"
      [] OTHER -> "close"

\* C12 as stated: for every device operation a reply with error code 0 is a
\* success and a reply with any other code raises a Vxi11Exception with the
\* code, the text of the table (or 'Unknown error') and the operation's name.
C12_EveryReplyMapped ==
    resp.kind = "reply"
        => IF resp.error /= 0
             THEN /\ pc = "done"
                  /\ done.status = "raised"
                  /\ done.exc.type = "Vxi11Exception"
                  /\ done.exc.msg = <<resp.error,
                                      IF resp.error \in DOMAIN em
                                        THEN em[resp.error] ELSE "Unknown error",
                                      StepName(req)>>
             ELSE ~(done.status = "raised" /\ done.exc.type = "Vxi11Exception")

\* C12 (amended): the same for every reply but that of destroy_link, whose
\* error code close() does not look at; a reply with code 0 never raises a
\* Vxi11Exception that carries a code.
C12_ReplyMapped ==
    (resp.kind = "reply" /\ req.proc /= "destroy_link")
        => IF resp.error /= 0
             THEN /\ pc = "done"
                  /\ done.status = "raised"
                  /\ done.exc.type = "Vxi11Exception"
                  /\ done.exc.err = <<"int", resp.error>>
                  /\ done.exc.msg = <<resp.error,
                                      IF resp.error \in DOMAIN em
                                        THEN em[resp.error] ELSE "Unknown error",
                                      StepName(req)>>
                  /\ (resp.error = 4 => done.exc.msg[2] = "Invalid link identifier")
             ELSE ~(done.status = "raised" /\ done.exc.err[1] = "int")

\* a device_read answered with a code that the table does not have
C12_Witness ==
    /\ pc = "done"
    /\ done.op = "read_raw"
    /\ req.proc = "device_read"
    /\ resp.kind = "reply"
    /\ resp.error = 2
    /\ done.exc.msg = <<2, "Unknown error", "read">>

----------------------------------------------------------------------------
(* Properties of find_listeners *)

\* C13 as stated: whenever find_listeners has returned or raised, a
\* device_unlock has been issued and the locked flag is false.
C13_AlwaysUnlocked ==
    (pc = "done" /\ done.op = "find_listeners")
        => (Count("device_unlock") >= 1 /\ ~locked)

\* C13 (amended): once find_listeners has reached its lock() (the link is
\* open), its last request on every exit, normal or by an exception, is a
\* device_unlock; the locked flag is false on every exit on which that
\* device_unlock was answered with error 0, and an exit on which it was not
\* is an exception.
C13_UnlockIssued ==
    (pc = "done" /\ done.op = "find_listeners" /\ Count("device_lock") >= 1)
        => /\ req.proc = "device_unlock"
           /\ (resp.kind = "reply" /\ resp.error = 0) => ~locked
           /\ ~(resp.kind = "reply" /\ resp.error = 0) => done.status = "raised"

\* a listener was found, then the NDAC query of a later probe was answered
\* with error 4: the except clause has unlocked and the error is raised
C13_Witness ==
    /\ pc = "done"
    /\ done.op = "find_listeners"
    /\ done.status = "raised"
    /\ done.exc.msg = <<4, "Invalid link identifier", "bus_status">>
    /\ found = << <<5>> >>
    /\ probe = 2
    /\ req.proc = "device_unlock"
    /\ resp.error = 0
    /\ ~locked

\* the primary addresses find_listeners was asked to look at
Candidates ==
    IF arg = None THEN (0 .. 30) \ {bus_address}
                  ELSE {arg[i][1] : i \in 1 .. Len(arg)}

\* C14: on a bus whose devices assert NDAC exactly when addressed as
\* listener, find_listeners returns the candidates that are listeners at
\* their primary address and, for a candidate that is not, the listeners at
\* its sub-addresses, and nothing else; listeners at 5 and (12, 3) give
\* 5 and (12, 3).
C14_ExactListeners ==
    (pc = "done" /\ done.op = "find_listeners" /\ done.status = "ok")
        => /\ {done.value[i] : i \in 1 .. Len(done.value)}
                = {l \in listeners :
                      /\ l[1] \in Candidates
                      /\ Len(l) = 2 => <<l[1]>> \notin listeners}
           /\ (listeners = { <<5>>, <<12, 3>> } /\ arg = << <<5>>, <<12>> >>)
                => done.value = << <<5>>, <<12, 3>> >>

\* the scan of 5 and 12 on the bus with listeners at 5 and (12, 3)
C14_Witness ==
    /\ pc = "done"
    /\ done.op = "find_listeners"
    /\ done.status = "ok"
    /\ listeners = { <<5>>, <<12, 3>> }
    /\ arg = << <<5>>, <<12>> >>
    /\ done.value = << <<5>>, <<12, 3>> >>
    /\ ~locked

----------------------------------------------------------------------------
(* Properties of the RPC clients *)

\* C15: the result a call returns, on the TCP, the UDP and the broadcast
\* client, is decoded only from replies whose xid is the xid of that call:
\* a reply with another xid is never what the call returns.
C15_ResultFromOwnXid ==
    /\ (rpc_pc = "done" /\ result.status = "ok")
       => /\ \A i \in 1 .. Len(result.from) : result.from[i] = lastxid
          /\ transport \in {"tcp", "udp"}
             => /\ Len(result.from) = 1
                /\ rcvd /= <<>>
                /\ rcvd[Len(rcvd)].xid = lastxid
    /\ \A i \in 1 .. Len(replies) : replies[i].xid = lastxid

\* the second call of a TCP connection has read the late reply to the first
\* call, dropped it, and returned the reply that carries its own xid
C15_Witness ==
    /\ transport = "tcp"
    /\ rpc_pc = "done"
    /\ result.status = "ok"
    /\ lastxid = 2
    /\ Len(rcvd) = 2
    /\ rcvd[1].xid = 1
    /\ rcvd[2].xid = 2
    /\ result.from = <<2>>

\* C16: the calls of one connection use the xids 1, 2, 3, ... in turn, each
\* the xid before it plus one, so no xid is used twice, a call that failed
\* having used up its xid like any other.
C16_XidsIncrease ==
    /\ xids = [i \in 1 .. Len(xids) |-> i]
    /\ lastxid = Len(xids)

\* the call after one that timed out is on its way with the next xid
C16_Witness ==
    /\ transport = "udp"
    /\ rpc_pc = "wait"
    /\ result.op = "call"
    /\ result.status = "raised"
    /\ result.exc = "timeout"
    /\ xids = <<1, 2>>
    /\ lastxid = 2
    /\ sends = 1

Successful(r) == r.mtype = REPLY /\ r.stat = MSG_ACCEPTED /\ r.sub = SUCCESS

\* C17: when the TCP or the UDP client receives a reply to the outstanding
\* call whose status is not accepted / SUCCESS, the call raises an error at
\* once and the call is not sent again.
C17_BadStatusFails ==
    [][ (rpc_pc = "wait" /\ transport \in {"tcp", "udp"}
         /\ Len(rcvd') = Len(rcvd) + 1
         /\ rcvd'[Len(rcvd')].xid = lastxid
         /\ ~Successful(rcvd'[Len(rcvd')]))
        => /\ rpc_pc' = "done"
           /\ result'.status = "raised"
           /\ result'.exc \notin {"", "timeout"}
           /\ sends' = sends ]_vars

\* a UDP call, sent twice, has failed on a PROG_UNAVAIL reply
C17_Witness ==
    /\ transport = "udp"
    /\ rpc_pc = "done"
    /\ sends = 2
    /\ rcvd /= <<>>
    /\ rcvd[Len(rcvd)] = [xid |-> lastxid, mtype |-> REPLY,
                          stat |-> MSG_ACCEPTED, sub |-> PROG_UNAVAIL]
    /\ result.status = "raised"
    /\ result.exc = "call failed: PROG_UNAVAIL"

\* C18: a UDP call that no datagram ever answers fails with a timeout after
\* exactly 5 transmissions and the waits 1, 2, 4, 8, 16, and no wait of the
\* UDP client is longer than 25.
C18_FiveAttempts ==
    /\ (transport = "udp" /\ rpc_pc = "done" /\ result.exc = "timeout" /\ rcvd = <<>>)
       => (sends = 5 /\ waits = <<1, 2, 4, 8, 16>>)
    /\ transport = "udp" => \A i \in 1 .. Len(waits) : waits[i] <= 25

\* C19: a UDP call sends its datagram again at most 5 times, each time in a
\* turn of the loop in which a wait went by and nothing was received, and
\* the wait that goes by after the fifth resend raises the timeout without
\* another send.
C19_Resends ==
    /\ [] (transport = "udp" => sends <= 1 + 5)
    /\ [][ (transport = "udp" /\ sends >= 1 /\ sends' > sends)
           => (waits' = Append(waits, timeout) /\ rcvd' = rcvd) ]_vars
    /\ [][ (transport = "udp" /\ rpc_pc = "wait" /\ sends = 1 + 5
            /\ Len(waits') > Len(waits))
           => /\ rpc_pc' = "done"
              /\ result'.status = "raised"
              /\ result'.exc = "timeout"
              /\ sends' = sends ]_vars

\* the call was sent 6 times and has timed out; the datagram with another
\* xid that came in between did not make it send
C19_Witness ==
    /\ transport = "udp"
    /\ rpc_pc = "done"
    /\ result.exc = "timeout"
    /\ sends = 6
    /\ Len(waits) = 6
    /\ Len(rcvd) = 1

\* C20: when a TCP or UDP client is created without a port and the port
\* mapper answers 0, the constructor raises 'program not registered', no
\* socket has been connected to port 0 or to any other port, no call has
\* been sent to the program, and the port mapper connection is closed.
C20_NotRegistered ==
    (transport \in {"tcp", "udp"} /\ pmap_reply = Some(0))
        => /\ rpc_pc = "new"
           /\ result = [op |-> "init", status |-> "raised",
                        exc |-> "program not registered", from |-> <<>>]
           /\ connects = <<>>
           /\ port = 0
           /\ sends = 0
           /\ xids = <<>>
           /\ pmap = "closed"

\* a UDP client whose program the port mapper does not know
C20_Witness ==
    /\ transport = "udp"
    /\ pmap_reply = Some(0)
    /\ pmap = "closed"
    /\ result.status = "raised"
    /\ result.exc = "program not registered"

----------------------------------------------------------------------------
(* Properties of broadcast calls *)

\* the (decoded result, sender address) pairs of the datagrams of seq that
\* carry the xid last
RECURSIVE MatchingPairs(_, _)
MatchingPairs(seq, last) ==
    IF seq = <<>> THEN <<>>
    ELSE LET r == seq[Len(seq)]
             before == MatchingPairs(SubSeq(seq, 1, Len(seq) - 1), last)
         IN IF r.xid = last THEN Append(before, <<Decoded(r.from), r.from>>)
            ELSE before

\* seq without the elements that occurred earlier in it
RECURSIVE Distinct(_)
Distinct(seq) ==
    IF seq = <<>> THEN <<>>
    ELSE LET before == Distinct(SubSeq(seq, 1, Len(seq) - 1))
             x == seq[Len(seq)]
         IN IF \E i \in 1 .. Len(before) : before[i] = x THEN before
            ELSE Append(before, x)

\* the pairs make_call returns
ReturnedPairs == [i \in 1 .. Len(replies) |-> <<replies[i].reply, replies[i].fromaddr>>]

\* C21: a broadcast call that returns has collected, in arrival order,
\* exactly the distinct replies with its xid that were received before the
\* window elapsed, and the handler, when set, was called once for each
\* returned pair in that order
C21_DistinctReplies ==
    (transport = "bcast" /\ rpc_pc = "done" /\ result.status = "ok")
        => /\ ReturnedPairs = Distinct(MatchingPairs(rcvd, lastxid))
           /\ handled = IF reply_handler THEN ReturnedPairs ELSE <<>>

----------------------------------------------------------------------------
(* Properties of abort() *)

\* C22: an abort() that has sent its call sent it on the abort channel,
\* never on the main connection, to the abort port recorded by the most
\* recent successful create_link and with the current link
C22_AbortOnCurrentChannel ==
    (pc = "done" /\ op = "abort"
     /\ (done.status = "ok" \/ done.exc.note = Some("abort")))
        => /\ abort_req = Some([port |-> abort_port, link |-> link])
           /\ Count("device_abort") = 0

----------------------------------------------------------------------------
(* Properties of calls made by several threads under one mutex *)

----------------------------------------------------------------------------
(* Properties of the bus addresses *)

AddrRange == 0 .. 30

\* the listen bytes of a list of valid addresses
RECURSIVE Targets(_)
Targets(al) ==
    IF al = <<>> THEN <<>>
    ELSE (IF Len(Head(al)) > 1
            THEN <<Head(al)[1] + 32, Head(al)[2] + 96>>
            ELSE <<Head(al)[1] + 32>>) \o Targets(Tail(al))

\* an address the operation o is to reject is in its argument a
ArgInvalidOf(o, a) ==
    IF o = "create_setup"
      THEN IF a.form = "int" THEN a.val \notin AddrRange
           ELSE \E i \in 1 .. Len(a.val) :
                  \E j \in 1 .. Len(a.val[i]) : j <= 2 /\ a.val[i][j] \notin AddrRange
      ELSE a[1] \notin AddrRange

\* create_setup was called with a list of valid addresses
SetupOfValidList ==
    /\ pc = "done"
    /\ op = "create_setup"
    /\ arg.form = "list"
    /\ ~ArgInvalidOf(op, arg)

\* C24 as stated: for a list of valid addresses create_setup returns the
\* unlisten/untalk bytes first, then this controller's talk address, then
\* the listen address of each target in list order, followed by its
\* secondary address when the target is a pair
C24_UnlistenThenTalker ==
    SetupOfValidList
        => /\ done.status = "ok"
           /\ \E h \in { <<GPIB_CMD_UNL>>, <<GPIB_CMD_UNL, GPIB_CMD_UNT>>,
                          <<GPIB_CMD_UNT, GPIB_CMD_UNL>> } :
                done.value = h \o <<bus_address + 64>> \o Targets(arg.val)

\* C24 (amended): the talk address of this controller comes first, then
\* the unlisten byte and no untalk byte, then the targets as stated
C24_TalkerThenUnlisten ==
    SetupOfValidList
        => /\ done.status = "ok"
           /\ done.value = <<bus_address + 64, 63>> \o Targets(arg.val)

\* the setup of (12, 3), 5, (12, 0) built by the controller at address 30
C24_Witness ==
    /\ SetupOfValidList
    /\ bus_address = 30
    /\ arg.val = << <<12, 3>>, <<5>>, <<12, 0>> >>
    /\ done.value = <<94, 63, 44, 99, 37, 44, 96>>

\* C25 as stated: set_bus_address, pass_control and create_setup called
\* with an address outside 0..30 raise Vxi11Exception("Invalid address")
\* with no request sent and no connection made, and the recorded bus address
\* changes only in a set_bus_address that is answered with error 0
C25_OnlySetBusAddress ==
    [][ /\ (pc = "idle" /\ op' \in BusAddrOps \cup SetupOps /\ ArgInvalidOf(op', arg'))
           => /\ pc' = "done"
              /\ done'.status = "raised"
              /\ done'.exc = InvalidAddress(op')
              /\ log' = <<>>
              /\ UNCHANGED <<device, conns>>
        /\ (bus_address' /= bus_address)
           => /\ op = "set_bus_address"
              /\ pc = "addr"
              /\ resp'.kind = "reply"
              /\ resp'.error = 0 ]_vars

\* C25 (amended): the same rejection, and the recorded bus address changes
\* only in a set_bus_address that is answered with error 0 or in an open()
\* whose query of the interface's address is answered with error 0
C25_RejectedBeforeSending ==
    [][ /\ (pc = "idle" /\ op' \in BusAddrOps \cup SetupOps /\ ArgInvalidOf(op', arg'))
           => /\ pc' = "done"
              /\ done'.status = "raised"
              /\ done'.exc = InvalidAddress(op')
              /\ log' = <<>>
              /\ UNCHANGED <<device, conns>>
        /\ (bus_address' /= bus_address)
           => /\ \/ op = "set_bus_address" /\ pc = "addr"
                 \/ pc = "busaddr"
              /\ resp'.kind = "reply"
              /\ resp'.error = 0 ]_vars

\* set_bus_address(31) on a closed device has raised, nothing was sent and
\* the device is still closed
C25_Witness ==
    /\ pc = "done"
    /\ op = "set_bus_address"
    /\ arg = <<31>>
    /\ done.exc = InvalidAddress("set_bus_address")
    /\ log = <<>>
    /\ link = None /\ client = None /\ conns = 0

----------------------------------------------------------------------------
(* Properties of parse_visa_resource_string *)

\* the parts are those of TCPIP[n]::<host>::[<sub-address>::]INSTR, the
\* keywords in either case
OfVisaForm(r) ==
    /\ r.prefix \in { <<"TCPIP">>, <<"tcpip">>, <<"TCPIP", "0">>, <<"TCPIP", "0", "0">> }
    /\ r.sep = <<":", ":">>
    /\ r.host \in { <<"h">>, <<"h", "0">>, <<"INSTR">> }
    /\ r.sub \in { None, Some(<<"h">>), Some(<<"h", "[", "h", "]">>),
                    Some(<<"h", "[", "h", ":", ":", "0", ":", ":", "h", "]">>) }
    /\ r.suffix \in { <<"INSTR">>, <<"instr">> }

\* C26: a string of the form TCPIP[n]::<host>::[<sub-address>::]INSTR
\* parses to type TCPIP, its prefix with the digits, its host as arg1, its
\* sub-address (brackets and inner double colons included) as arg2 and its
\* suffix; any other string parses to nothing
C26_ParsesTheForm ==
    (output /= None)
        => IF OfVisaForm(input)
             THEN output[1] = Some([type |-> "TCPIP",
                                    prefix |-> input.prefix,
                                    arg1 |-> input.host,
                                    arg2 |-> IF input.sub = None THEN None
                                             ELSE input.sub[1],
                                    suffix |-> input.suffix])
             ELSE output[1] = None

----------------------------------------------------------------------------
(* Properties of the negotiated receive size *)

\* C27: a create_link answered with error 0 leaves max_recv_size at the
\* smaller of the size in the reply and 1048576, and max_recv_size is at
\* most 1048576 in every state
C27_ReceiveSizeClamped ==
    /\ max_recv_size <= 1048576
    /\ [][ /\ (pc = "open" /\ resp'.kind = "reply" /\ resp'.error = 0)
               => /\ link' /= None
                  /\ max_recv_size' = IF resp'.size < 1048576 THEN resp'.size
                                      ELSE 1048576
           /\ max_recv_size' <= 1048576 ]_vars

\* an open() whose create_link answered 1048577 has returned
C27_Witness ==
    /\ pc = "done"
    /\ op = "open"
    /\ done.status = "ok"
    /\ resp.size = 1048577
    /\ max_recv_size = 1048576

----------------------------------------------------------------------------
(* Properties of record marking *)

RECURSIVE Concat(_)
Concat(fs) == IF fs = <<>> THEN <<>> ELSE Head(fs) \o Concat(Tail(fs))

\* C28: recvrecord returns, never raises, on a record sent in fragments of
\* which only the last carries the flag, what it returns is the
\* concatenation of the payloads, and it has read up to the end of the last
\* fragment and no further; so a record sent by sendrecord comes back as it
\* was
C28_RecordRoundTrip ==
    /\ output.pc /= "raised"
    /\ output.pc = "returned"
         => /\ output.record = Concat(input.frags)
            /\ output.pos = Len(SockBytes(input)) - Len(input.trailing)

----------------------------------------------------------------------------
(* Properties of replies that carry another xid *)

\* C29: in a TCP call a reply record with an xid below lastxid is dropped
\* and the call goes on reading, nothing being sent again, and a reply
\* record with an xid above lastxid makes the call raise at once
C29_StaleDroppedFutureFails ==
    [][ (transport = "tcp" /\ rpc_pc = "wait" /\ Len(rcvd') = Len(rcvd) + 1)
          => /\ rcvd'[Len(rcvd')].xid < lastxid
                  => (rpc_pc' = "wait" /\ sends' = sends /\ result' = result)
             /\ rcvd'[Len(rcvd')].xid > lastxid
                  => (rpc_pc' = "done" /\ result'.status = "raised") ]_vars

\* C30: in a UDP call a datagram with an xid other than lastxid changes
\* neither count nor timeout, is followed by no retransmission, and leaves
\* the call waiting
C30_MismatchOnlyConsumed ==
    [][ (transport = "udp" /\ rpc_pc = "wait" /\ Len(rcvd') = Len(rcvd) + 1
         /\ rcvd'[Len(rcvd')].xid /= lastxid)
          => /\ count' = count
             /\ timeout' = timeout
             /\ sends' = sends
             /\ waits' = waits
             /\ rpc_pc' = "wait"
             /\ result' = result ]_vars

----------------------------------------------------------------------------
(* The candidates and the order of the probes of find_listeners *)

\* the request in flight is a probe command of find_listeners that names
\* address a as listener (the byte after unlisten, untalk and own talk)
ProbesAsListener(a) ==
    /\ op = "find_listeners"
    /\ req.proc = "device_docmd"
    /\ req.size = 1
    /\ Len(req.data) >= 4
    /\ req.data[4] = a + GPIB_CMD_LAD

\* C31 as stated: no probe of find_listeners, the list being the default
\* one or one the caller supplied, names the controller's own bus address
\* as listener.
C31_NeverProbesOwnAddress == ~ProbesAsListener(bus_address)

\* C31 (amended): in a scan of the default list no probe names the
\* controller's own bus address as listener; a list the caller supplied is
\* probed entry by entry as given.
C31_DefaultSkipsOwnAddress ==
    /\ arg = None => ~ProbesAsListener(bus_address)
    /\ (arg /= None /\ pc = "fl_atn") => ProbesAsListener(arg[addr_i][1])

\* the default scan has gone past the own address 5: the probe after the
\* one of address 4 names address 6
C31_Witness ==
    /\ arg = None
    /\ bus_address = 5
    /\ pc = "fl_atn"
    /\ probe = 1
    /\ addr_i = 6
    /\ ProbesAsListener(6)

\* the request r is the NDAC query (test_ndac), the attention drop
\* (set_atn(False)) or the addressing command of the probe in hand
IsNdacSample(r) ==
    r = Request("device_docmd", link, 0, PackH(CMD_BUS_STATUS_NDAC), 2, 0)

IsAtnDrop(r) == r = Request("device_docmd", link, 0, PackH(0), 2, 0)

IsProbeCommand(r) ==
    /\ addr_i \in 1 .. Len(address_list)
    /\ r = Request("device_docmd", link, 0,
                   ProbeCmd(probe, bus_address, address_list[addr_i][1], sa), 1, 0)

Answered == resp.kind = "reply" /\ resp.error = 0

\* C32: within find_listeners, the first probe of a candidate is the primary
\* probe; the combined probe of a candidate is started only from the NDAC
\* sample of its primary probe, answered with NDAC not asserted; the
\* individual secondary probes are started only from the NDAC sample of its
\* combined probe, answered with NDAC asserted; an NDAC query is sent only
\* right after the answered attention drop, and an attention drop only right
\* after the answered addressing command of the probe in hand.
C32_ProbeOrder ==
    [][ (op = "find_listeners" /\ op' = op)
          => /\ (pc' = "fl_cmd" /\ addr_i' /= addr_i) => probe' = 1
             /\ (probe' = 2 /\ probe /= 2)
                  => (probe = 1 /\ IsNdacSample(req') /\ ~ndac /\ addr_i' = addr_i)
             /\ (probe' = 3 /\ probe /= 3)
                  => (probe = 2 /\ IsNdacSample(req') /\ ndac /\ addr_i' = addr_i)
             /\ (IsNdacSample(req') /\ log' /= log)
                  => (IsAtnDrop(req) /\ Answered)
             /\ (IsAtnDrop(req') /\ log' /= log)
                  => (IsProbeCommand(req) /\ Answered)
             /\ (pc = "fl_cmd" /\ log' /= log) => IsProbeCommand(req') ]_vars

\* the individual probe of (12, 3) is about to be sampled: the primary probe
\* of 12 was not answered, the combined one was
C32_Witness ==
    /\ op = "find_listeners"
    /\ pc = "fl_ndac"
    /\ probe = 3
    /\ sa = 3
    /\ address_list[addr_i] = <<12>>
    /\ <<12, 3>> \in listeners
    /\ ndac
    /\ IsAtnDrop(req)

----------------------------------------------------------------------------
(* Progress and coverage of write_raw *)

\* this step of write_raw sent a block and the device answered it without
\* error
BlockAnswered ==
    /\ pc = "write"
    /\ log' /= log
    /\ resp'.kind = "reply"
    /\ resp'.error = 0

\* C33: a write terminates when every block is reported as accepted in full,
\* whatever receive size open() recorded: each such device_write leaves
\* strictly fewer bytes to send than there were before it (num is a natural
\* number, so only finitely many requests are made before the loop ends).
C33_WriteTerminates ==
    [][ (BlockAnswered /\ resp'.size = Len(req'.data))
          => (num' < num /\ num' >= 0) ]_vars

\* C34: the blocks of one successful write tile the payload, whatever count
\* not below the block length the device reports: each block is the bytes of
\* the payload that start where the block before it ended (the first at 0),
\* and the write returns when the end of the payload is reached.
C34_BlocksTileThePayload ==
    [][ (BlockAnswered /\ resp'.size >= Len(req'.data))
          => /\ req'.data = Slice(data, offset, offset + Len(req'.data))
             /\ offset' = offset + Len(req'.data)
             /\ pc' = "done" <=> offset' = Len(data) ]_vars

----------------------------------------------------------------------------
(* The Closed state *)

\* C35: whenever open() has raised, on a Device or on an InterfaceDevice,
\* no link handle is recorded.
C35_FailedOpenIsClosed ==
    (pc = "done" /\ done.op = "open" /\ done.status = "raised") => link = None

\* C36: in every state in which no link handle is recorded the Device holds
\* no client and no connection of its own is open.
C36_ClosedHoldsNoConnection == link = None => (client = None /\ conns = 0)

\* C37: the locked flag is false whenever no link handle is recorded, and
\* false after every step that records a new link handle.
C37_LockedOnlyOnCurrentLink ==
    /\ [](link = None => ~locked)
    /\ [][ (link' /= link /\ link' /= None) => ~locked' ]_vars

----------------------------------------------------------------------------
(* A lock() that fails at the start of find_listeners *)

\* find_listeners has ended and the exception caught by its except clause
\* is the one of its lock()
LockFailed ==
    /\ pc = "done"
    /\ done.op = "find_listeners"
    /\ pending /= NoException
    /\ Count("device_lock") = 1
    /\ found = <<>>
    /\ addr_i = 0

\* C38: when the lock() of find_listeners fails, the device_lock is the last
\* request of the call (no probe and no device_unlock follows it) and the
\* exception raised to the caller is the one of the lock().
C38_LockFailureRaisedAlone ==
    LockFailed => /\ req.proc = "device_lock"
                  /\ Count("device_unlock") = 0
                  /\ done.status = "raised"
                  /\ done.exc = pending

----------------------------------------------------------------------------
(* Replies to other calls *)

\* this step of a waiting call took in a reply to another call: on TCP one
\* with an xid below lastxid, on UDP one with any xid other than lastxid
ForeignReply ==
    /\ rpc_pc = "wait"
    /\ Len(rcvd') = Len(rcvd) + 1
    /\ \/ transport = "tcp" /\ rcvd'[Len(rcvd')].xid < lastxid
       \/ transport = "udp" /\ rcvd'[Len(rcvd')].xid /= lastxid

\* C39: a reply to another call never ends the call that is waiting,
\* whatever message type and reply status it carries: the call neither
\* raises nor returns on it.
C39_ForeignReplyNeverFails ==
    [][ ForeignReply => (rpc_pc' = "wait" /\ result' = result) ]_vars

----------------------------------------------------------------------------
(* A TCP connection after a receive timeout *)

\* the offsets in the byte stream at which the peer put a fragment header
RECURSIVE FragOffsets(_, _)
FragOffsets(fs, at) ==
    IF fs = <<>> THEN {}
    ELSE {at} \cup FragOffsets(Tail(fs), at + 4 + Len(Head(fs)))

\* the offset of the reply to the second call
SecondReply(inp) == Len(SockBytes(inp)) - Len(inp.trailing)

HeaderOffsets(inp) == FragOffsets(inp.frags, 0) \cup {SecondReply(inp)}

\* C40: in a call made after a call was abandoned by a receive timeout, the
\* bytes decoded as a fragment header are a fragment header of the peer, a
\* record handed to do_call is a whole record of the peer (the reply to
\* the abandoned call, or the reply to the call itself), and the record left
\* when the stale one is discarded is the reply to the call itself.
C40_InStepAfterTimeout ==
    (output.call > 1)
        => /\ output.pos > output.start => output.hdr \in HeaderOffsets(input)
           /\ output.pc = "returned"
                => \/ /\ output.start = 0
                      /\ output.record = Concat(input.frags)
                   \/ /\ output.start = SecondReply(input)
                      /\ output.record = <<3>>

====
